---------------------------- MODULE Spec2Model ----------------------------
(***************************************************************************)
(* A model of the path tracer rookieCookies/raytracing: the explicit-stack *)
(* traversal Ray::hit_anything, the BVH builder Hittable::bvh, the         *)
(* integrator RaytracingCamera::ray_colour, the per-row render pass and    *)
(* the Camera session state.                                               *)
(*                                                                         *)
(* Numbers.  Coordinates are integers.  A ray parameter t (and a ray time) *)
(* is kept in units of 1/TScale, so that the code's 0.001 and 0.0001 are   *)
(* integers; f32::INFINITY, -INFINITY and NaN are the values PInf, NInf    *)
(* and NaN, and the operators F... below compute on them as IEEE-754 does. *)
(* The inputs are chosen so that every division and square root the code   *)
(* performs on them is exact.                                              *)
(***************************************************************************)
EXTENDS Integers, Sequences, FiniteSets, TLC

\* ray.rs:117 adds 0.0001 to a t: the finest step of t the code names.
TScale == 10000

\* f32::INFINITY, f32::NEG_INFINITY (interval.rs:9-10) and NaN (0 * inf).
PInf == 100000000
NInf == -PInf
NaN == PInf + 1

IsNaN(a) == a = NaN
IsInf(a) == a = PInf \/ a = NInf

\* IEEE-754 comparisons: every comparison with NaN is false.
FLe(a, b) == ~IsNaN(a) /\ ~IsNaN(b) /\ a <= b
FLt(a, b) == ~IsNaN(a) /\ ~IsNaN(b) /\ a < b

\* f32::min / f32::max and simd_min / simd_max: if one operand is NaN the
\* other is returned (interval.rs:19-20, aabb.rs:254-255).
FMin(a, b) == IF IsNaN(a) THEN b ELSE IF IsNaN(b) THEN a ELSE IF a < b THEN a ELSE b
FMax(a, b) == IF IsNaN(a) THEN b ELSE IF IsNaN(b) THEN a ELSE IF a > b THEN a ELSE b

\* a - b on f32 values of which a may be infinite (b is finite).
FSub(a, b) == IF IsInf(a) THEN a ELSE a - b

Sign(a) == IF a > 0 THEN 1 ELSE IF a < 0 THEN -1 ELSE 0

\* F applied to the value of x, which is computed once.
Then(x, F(_)) == CHOOSE r \in {F(v) : v \in {x}} : TRUE

\* x * (1.0 / d) as aabb.rs:234,244 computes it, in units of 1/TScale: 1.0/0.0 is
\* +inf, inf * 0 is NaN, and a product with an infinite factor is infinite.
MulInv(x, d) ==
    IF d = 0 THEN (IF x = 0 THEN NaN ELSE IF x > 0 THEN PInf ELSE NInf)
    ELSE IF IsInf(x) THEN (IF Sign(x) * Sign(d) > 0 THEN PInf ELSE NInf)
    ELSE (x * TScale) \div d

\* reduce_max / reduce_min over lanes: NaN lanes are passed over.
RECURSIVE reduce_max(_)
reduce_max(lanes) ==
    IF Len(lanes) = 1 THEN lanes[1] ELSE FMax(lanes[1], reduce_max(Tail(lanes)))

RECURSIVE reduce_min(_)
reduce_min(lanes) ==
    IF Len(lanes) = 1 THEN lanes[1] ELSE FMin(lanes[1], reduce_min(Tail(lanes)))

\* f32::sqrt on a perfect square.
Isqrt(n) == CHOOSE r \in 0..n : r * r <= n /\ (r + 1) * (r + 1) > n

Abs(a) == IF a < 0 THEN -a ELSE a

(***************************************************************************)
(* math/vec3.rs                                                            *)
(***************************************************************************)
Vec3_new(x, y, z) == <<x, y, z>>
ZERO == <<0, 0, 0>>
ONE == <<1, 1, 1>>

VAdd(a, b) == <<a[1] + b[1], a[2] + b[2], a[3] + b[3]>>
VSub(a, b) == <<a[1] - b[1], a[2] - b[2], a[3] - b[3]>>
VNeg(a) == <<-a[1], -a[2], -a[3]>>
VMul(a, b) == <<a[1] * b[1], a[2] * b[2], a[3] * b[3]>>
VScale(k, a) == <<k * a[1], k * a[2], k * a[3]>>
VDiv(a, k) == <<a[1] \div k, a[2] \div k, a[3] \div k>>

dot(a, b) == a[1] * b[1] + a[2] * b[2] + a[3] * b[3]
length_squared(a) == dot(a, a)
length(a) == Isqrt(length_squared(a))
cross(a, b) ==
    <<a[2] * b[3] - a[3] * b[2], a[3] * b[1] - a[1] * b[3], a[1] * b[2] - a[2] * b[1]>>
unit(a) == VDiv(a, length(a))
reflect(a, oth) == VSub(a, VScale(2 * dot(a, oth), oth))
near_zero(a) == a = ZERO

(***************************************************************************)
(* math/interval.rs                                                        *)
(***************************************************************************)
Interval_new(min, max) == [min |-> min, max |-> max]
Interval_EMPTY == Interval_new(PInf, NInf)
Interval_UNIVERSE == Interval_new(NInf, PInf)

from_intervals(a, b) == Interval_new(FMin(a.min, b.min), FMax(a.max, b.max))
contains(i, x) == FLe(i.min, x) /\ FLe(x, i.max)
surrounds(i, x) == FLt(i.min, x) /\ FLt(x, i.max)
size(i) == IF IsInf(i.max) \/ IsInf(i.min) THEN PInf ELSE Abs(i.max - i.min)


(***************************************************************************)
(* math/aabb.rs.  An AABB holds the lanes x, y, z of mins and maxs; the    *)
(* 4th lane of both is the constant 1.0, which the slab test multiplies by *)
(* ray_t.min and ray_t.max, so that lane contributes exactly those two.    *)
(***************************************************************************)
AABB_new(x, y, z) ==
    [mins |-> <<x.min, y.min, z.min>>, maxs |-> <<x.max, y.max, z.max>>]
AABB_EMPTY == AABB_new(Interval_EMPTY, Interval_EMPTY, Interval_EMPTY)

axis_interval(box, axis) == Interval_new(box.mins[axis + 1], box.maxs[axis + 1])

from_points(a, b) ==
    AABB_new(IF a[1] <= b[1] THEN Interval_new(a[1], b[1]) ELSE Interval_new(b[1], a[1]),
             IF a[2] <= b[2] THEN Interval_new(a[2], b[2]) ELSE Interval_new(b[2], a[2]),
             IF a[3] <= b[3] THEN Interval_new(a[3], b[3]) ELSE Interval_new(b[3], a[3]))

from_aabbs(box1, box2) ==
    AABB_new(from_intervals(axis_interval(box1, 0), axis_interval(box2, 0)),
             from_intervals(axis_interval(box1, 1), axis_interval(box2, 1)),
             from_intervals(axis_interval(box1, 2), axis_interval(box2, 2)))

\* A variant that prefers the earlier axis when two extents are equal.
longest_axis_Earliest(box) ==
    LET x == size(axis_interval(box, 0))
        y == size(axis_interval(box, 1))
        z == size(axis_interval(box, 2))
    IN  IF x >= y THEN (IF x >= z THEN 0 ELSE 2)
        ELSE (IF y >= z THEN 1 ELSE 2)

longest_axis(box) ==
    LET x == size(axis_interval(box, 0))
        y == size(axis_interval(box, 1))
        z == size(axis_interval(box, 2))
    IN  IF x > y THEN (IF x > z THEN 0 ELSE 2)
        ELSE (IF y > z THEN 1 ELSE 2)

\* AABB::offset and AABB::empty are called by hittable.rs:206 and hittable.rs:145
\* and are not part of the sources at hand: a box moved by a vector, and the
\* empty box.
AABB_offset(box, offset) ==
    [mins |-> <<FSub(box.mins[1], -offset[1]), FSub(box.mins[2], -offset[2]),
                FSub(box.mins[3], -offset[3])>>,
     maxs |-> <<FSub(box.maxs[1], -offset[1]), FSub(box.maxs[2], -offset[2]),
                FSub(box.maxs[3], -offset[3])>>]
AABB_empty == AABB_EMPTY
\* box1 == box2 on AABB, as assert_eq! of Hittable::bvh needs it: lane by lane.
AABB_eq(box1, box2) == box1.mins = box2.mins /\ box1.maxs = box2.maxs

AABBx2_new(aabb1, aabb2) == <<aabb1, aabb2>>
aabb1(aabbs) == aabbs[1]
\* A variant that reads the first box's lanes.
aabb2_First(aabbs) == aabbs[1]
aabb2(aabbs) == aabbs[2]

\* One box of AABBx2::hit: t1 = (mins - origin) * inv_dir, t2 = (maxs - origin)
\* * inv_dir on the lanes x, y, z, and ray_t.min, ray_t.max on the 4th lane.
SlabLanes(box, ray, ray_t) ==
    LET t1 == [k \in 1..3 |-> MulInv(FSub(box.mins[k], ray.origin[k]), ray.direction[k])]
        t2 == [k \in 1..3 |-> MulInv(FSub(box.maxs[k], ray.origin[k]), ray.direction[k])]
    IN  [lo |-> <<FMin(t1[1], t2[1]), FMin(t1[2], t2[2]), FMin(t1[3], t2[3]),
                  FMin(ray_t.min, ray_t.max)>>,
         hi |-> <<FMax(t1[1], t2[1]), FMax(t1[2], t2[2]), FMax(t1[3], t2[3]),
                  FMax(ray_t.min, ray_t.max)>>]

SlabAccept(min, max) == FLe(min, max)

AABB_hit(box, ray, ray_t) ==
    LET l == SlabLanes(box, ray, ray_t)
        min == reduce_max(l.lo)
        max == reduce_min(l.hi)
    IN  [t |-> Interval_new(min, max), hit |-> SlabAccept(min, max)]

AABBx2_hit(aabbs, ray, ray_t) ==
    <<AABB_hit(aabbs[1], ray, ray_t), AABB_hit(aabbs[2], ray, ray_t)>>

(***************************************************************************)
(* material.rs, texture.rs.  A texture is a solid colour or the            *)
(* placeholder NotFound; the coordinates u, v only feed image textures and *)
(* are left out of the HitRecord.                                          *)
(***************************************************************************)
Texture_colour(colour) == [kind |-> "SolidColour", colour |-> colour]
Texture_NotFound == [kind |-> "NotFound", colour |-> ZERO]
\* Texture::value: the colour of a solid colour, Colour::ZERO of the placeholder.
Texture_value(texture) ==
    CASE texture.kind = "SolidColour" -> texture.colour
      [] texture.kind = "NotFound" -> ZERO

Material_new(texture, kind, param) == [texture |-> texture, kind |-> kind, param |-> param]
lambertian(texture) == Material_new(texture, "Lambertian", 0)
metal(texture, fuzz_radius) == Material_new(texture, "Metal", fuzz_radius)
dielectric(texture, refraction_index) == Material_new(texture, "Dielectric", refraction_index)
diffuse_light(texture) == Material_new(texture, "DiffuseLight", 0)
isotropic(texture) == Material_new(texture, "Isotropic", 0)
Material_default == Material_new(Texture_NotFound, "NotFound", 0)

\* A variant in which every material emits its texture.
emitted_Always(material) == Texture_value(material.texture)

emitted(material) ==
    IF material.kind = "DiffuseLight" THEN Texture_value(material.texture) ELSE ZERO

(***************************************************************************)
(* rng.rs.  A Seed is four words and the count of values drawn from it.    *)
(* The words are kept modulo SeedMod, with addition standing for xor,      *)
(* doubling for the shift and tripling for the rotations; next_f32 gives   *)
(* value / SeedMod, a number in [0, 1), as the integer value.              *)
(***************************************************************************)
SeedMod == 8

Seed_new(words) == [s |-> [k \in 1..4 |-> words[k] % SeedMod], drawn |-> 0]

Seed_next(seed) ==
    LET s == seed.s
        result == (3 * (s[1] + s[4]) + s[1]) % SeedMod
        t == (2 * s[2]) % SeedMod
        s3 == (s[3] + s[1]) % SeedMod
        s4 == (s[4] + s[2]) % SeedMod
        s2 == (s[2] + s3) % SeedMod
        s1 == (s[1] + s4) % SeedMod
    IN  [value |-> result,
         seed |-> [s |-> <<s1, s2, (s3 + t) % SeedMod, (3 * s4) % SeedMod>>,
                   drawn |-> seed.drawn + 1]]

next_f32(seed) == Seed_next(seed)

\* rng.rs:7: the words of the thread-local SEED.
SEED == Seed_new(<<6, 9, 4, 20>>)

(***************************************************************************)
(* math/ray.rs: Ray, and hittable.rs: HitRecord and the primitives         *)
(***************************************************************************)
Ray_new(origin, direction, time) == [origin |-> origin, direction |-> direction, time |-> time]

\* origin + t * direction, t in units of 1/TScale.
at(ray, t) == VAdd(ray.origin, VDiv(VScale(t, ray.direction), TScale))

HitRecord_default ==
    [point |-> ZERO, normal |-> ZERO, t |-> 0, front_face |-> FALSE,
     material |-> Material_default]

set_face_normal(rec, ray, outward_normal) ==
    LET front_face == dot(ray.direction, outward_normal) < 0
    IN  [rec EXCEPT !.front_face = front_face,
                    !.normal = IF front_face THEN outward_normal ELSE VNeg(outward_normal)]

Sphere_new(centre, radius, material) ==
    [kind |-> "Sphere", centre |-> centre, radius |-> radius, material |-> material]

MovingSphere_new(centre_1, centre_2, radius, material) ==
    [kind |-> "MovingSphere", centre |-> Ray_new(centre_1, VSub(centre_2, centre_1), 0),
     radius |-> radius, material |-> material]

\* w = n / n.dot(n) is kept as the pair (n, n.dot(n)).
Quad_new(q, u, v, material) ==
    LET n == cross(u, v)
        normal == unit(n)
    IN  [kind |-> "Quad", q |-> q, u |-> u, v |-> v, n |-> n, nn |-> dot(n, n),
         normal |-> normal, d |-> dot(normal, q), material |-> material]

\* The body shared by Sphere::hit and MovingSphere::hit, for the centre in use.
SphereHitAt(current_centre, radius, material, ray, t, rec) ==
    LET oc == VSub(ray.origin, current_centre)
        a == length_squared(ray.direction)
        half_b == dot(oc, ray.direction)
        c == length_squared(oc) - radius * radius
        discriminant == half_b * half_b - a * c
        discriminant_sqrt == Isqrt(discriminant)
        root1 == ((-half_b - discriminant_sqrt) * TScale) \div a
        root2 == ((-half_b + discriminant_sqrt) * TScale) \div a
        root == IF surrounds(t, root1) THEN root1 ELSE root2
        point == at(ray, root)
        outward_normal == VDiv(VSub(point, current_centre), radius)
    IN  IF discriminant < 0 THEN [hit |-> FALSE, rec |-> rec]
        ELSE IF ~surrounds(t, root1) /\ ~surrounds(t, root2) THEN [hit |-> FALSE, rec |-> rec]
        ELSE [hit |-> TRUE,
              rec |-> [set_face_normal([rec EXCEPT !.t = root, !.point = point],
                                       ray, outward_normal)
                       EXCEPT !.material = material]]

Sphere_hit(sphere, ray, t, rec) ==
    SphereHitAt(sphere.centre, sphere.radius, sphere.material, ray, t, rec)

MovingSphere_hit(sphere, ray, t, rec) ==
    SphereHitAt(at(sphere.centre, ray.time), sphere.radius, sphere.material, ray, t, rec)

Quad_hit(quad, ray, ray_t, rec) ==
    LET denom == dot(quad.normal, ray.direction)
        t == ((quad.d - dot(quad.normal, ray.origin)) * TScale) \div denom
        intersection == at(ray, t)
        planar_hitpt_vec == VSub(intersection, quad.q)
        alpha_n == dot(quad.n, cross(planar_hitpt_vec, quad.v))
        beta_n == dot(quad.n, cross(quad.u, planar_hitpt_vec))
    IN  IF denom = 0 THEN [hit |-> FALSE, rec |-> rec]
        ELSE IF ~contains(ray_t, t) THEN [hit |-> FALSE, rec |-> rec]
        ELSE IF ~(0 <= alpha_n /\ alpha_n <= quad.nn) \/ ~(0 <= beta_n /\ beta_n <= quad.nn)
             THEN [hit |-> FALSE, rec |-> rec]
        ELSE [hit |-> TRUE,
              rec |-> set_face_normal([rec EXCEPT !.t = t, !.point = intersection,
                                                  !.material = quad.material],
                                      ray, quad.normal)]

(***************************************************************************)
(* hittable.rs: the scene graph.  Option<T> is a sequence of length 0 or 1.*)
(***************************************************************************)
None == <<>>
Some(x) == <<x>>

Hittable_list(list) == [kind |-> "List", items |-> list]
Hittable_move_by(obj, offset) == [kind |-> "Move", obj |-> obj, offset |-> offset]
\* rotate_y_by(degrees) stores sin and cos of the angle; the model passes them.
Hittable_rotate_y(obj, sin, cos) == [kind |-> "RotateY", obj |-> obj, sin |-> sin, cos |-> cos]

\* ConstantMedium::new; density and neg_inv_density are in units of 1/TScale.
ConstantMedium_new(boundary, density, texture) ==
    [phase_function |-> isotropic(texture), boundary |-> boundary,
     neg_inv_density |-> -((TScale * TScale) \div density)]
Hittable_constant_medium(constant_medium) ==
    [kind |-> "ConstantMedium", medium |-> constant_medium]

RECURSIVE FoldAabbs(_, _)
FoldAabbs(boxes, acc) ==
    IF boxes = <<>> THEN acc ELSE FoldAabbs(Tail(boxes), from_aabbs(acc, Head(boxes)))

\* The corners loop of the RotateY arm of calc_aabb.
RotateYBox(bbox, sin, cos) ==
    LET corners == {<<i, j, k>> : i \in {0, 1}, j \in {0, 1}, k \in {0, 1}}
        tester(c) ==
            LET x == c[1] * bbox.maxs[1] + (1 - c[1]) * bbox.mins[1]
                y == c[2] * bbox.maxs[2] + (1 - c[2]) * bbox.mins[2]
                z == c[3] * bbox.maxs[3] + (1 - c[3]) * bbox.mins[3]
            IN  <<cos * x + sin * z, y, (-sin) * x + cos * z>>
        pts == {tester(c) : c \in corners}
        lo(k) == CHOOSE m \in {p[k] : p \in pts} : \A p \in pts : m <= p[k]
        hi(k) == CHOOSE m \in {p[k] : p \in pts} : \A p \in pts : m >= p[k]
    IN  from_points(<<lo(1), lo(2), lo(3)>>, <<hi(1), hi(2), hi(3)>>)

RECURSIVE calc_aabb(_)
calc_aabb(h) ==
    CASE h.kind = "Sphere" ->
            LET rvec == <<h.radius, h.radius, h.radius>>
            IN  from_points(VSub(h.centre, rvec), VAdd(h.centre, rvec))
      [] h.kind = "MovingSphere" ->
            LET rvec == <<h.radius, h.radius, h.radius>>
                box1 == from_points(VSub(at(h.centre, 0), rvec), VAdd(at(h.centre, 0), rvec))
                box2 == from_points(VSub(at(h.centre, TScale), rvec),
                                    VAdd(at(h.centre, TScale), rvec))
            IN  from_aabbs(box1, box2)
      [] h.kind = "Quad" ->
            LET bbox_diag1 == from_points(h.q, VAdd(VAdd(h.q, h.u), h.v))
                bbox_diag2 == from_points(VAdd(h.q, h.u), VAdd(h.q, h.v))
            IN  from_aabbs(bbox_diag1, bbox_diag2)
      [] h.kind = "ConstantMedium" -> calc_aabb(h.medium.boundary)
      [] h.kind = "BVH" ->
            IF h.right # None THEN from_aabbs(aabb1(h.aabbs), aabb2(h.aabbs))
            ELSE aabb1(h.aabbs)
      [] h.kind = "Move" -> AABB_offset(calc_aabb(h.obj), h.offset)
      [] h.kind = "RotateY" -> RotateYBox(calc_aabb(h.obj), h.sin, h.cos)
      [] h.kind = "List" ->
            FoldAabbs([i \in 1..Len(h.items) |-> calc_aabb(h.items[i])], AABB_EMPTY)

\* box_comp of Hittable::bvh: the comparison handed to sort_by.
box_comp(a, b, axis) ==
    axis_interval(calc_aabb(a), axis).min < axis_interval(calc_aabb(b), axis).min

\* list.sort_by(|a, b| if box_comp(a, b, axis) { Less } else { Greater }): the
\* slice sort is stable and only asks whether compare(a, b) is Less.
RECURSIVE sort_by(_, _)
sort_by(list, axis) ==
    IF Len(list) <= 1 THEN list
    ELSE LET n == Len(list)
             x == list[n]
             front == sort_by(SubSeq(list, 1, n - 1), axis)
             \* x goes before the first element it is Less than
             before == {i \in 1..(n - 1) : box_comp(x, front[i], axis)}
             pos == IF before = {} THEN n ELSE CHOOSE i \in before : \A j \in before : i <= j
         IN  SubSeq(front, 1, pos - 1) \o <<x>> \o SubSeq(front, pos, n - 1)

\* The midpoint list.len() / 2 of Hittable::bvh.
\* A variant that rounds the midpoint of an even length down by one.
Middle_Low(n) == (n - 1) \div 2
Middle(n) == n \div 2

\* A failed assert_eq! of Hittable::bvh unwinds: no node is returned.
Panic == [kind |-> "Panic"]

\* The node Hittable::bvh wraps around its two children, and the assertion on it.
BvhNode(r1, r2, aabb) ==
    LET hittable == [kind |-> "BVH",
                     aabbs |-> AABBx2_new(calc_aabb(r1),
                                          IF r2 # None THEN calc_aabb(r2[1]) ELSE AABB_empty),
                     left |-> r1, right |-> r2]
    IN  IF AABB_eq(calc_aabb(hittable), aabb) THEN hittable ELSE Panic

RECURSIVE bvh(_)
bvh(hittables) ==
    LET aabb == FoldAabbs([i \in 1..Len(hittables) |-> calc_aabb(hittables[i])], AABB_EMPTY)
        axis == longest_axis(aabb)
    IN  IF Len(hittables) = 1 THEN BvhNode(hittables[1], None, aabb)
        ELSE IF Len(hittables) = 2 THEN BvhNode(hittables[1], Some(hittables[2]), aabb)
        ELSE LET list == sort_by(hittables, axis)
                 middle == Middle(Len(list))
                 r1 == bvh(SubSeq(list, 1, middle))
                 r2 == bvh(SubSeq(list, middle + 1, Len(list)))
             IN  IF r1 = Panic \/ r2 = Panic THEN Panic
                 ELSE BvhNode(r1, Some(r2), aabb)

(***************************************************************************)
(* math/ray.rs: Ray::hit_anything.  The work stack is a sequence whose     *)
(* last element is the top; s is the record of the function's locals       *)
(* (stack, ray, hit_anything, tmin, tmax) and of the caller's rec.         *)
(***************************************************************************)
Switch_Hittable(node) == [tag |-> "Hittable", node |-> node]
Switch_RayMove(vec3, hit) == [tag |-> "RayMove", vec3 |-> vec3, hit |-> hit]
Switch_RayRotateY(original_ray, hit_anything_prev, sin, cos) ==
    [tag |-> "RayRotateY", original_ray |-> original_ray,
     hit_anything_prev |-> hit_anything_prev, sin |-> sin, cos |-> cos]

Switch_ConstantMediumPhase1(original_rec, original_t, medium, hit_anything_prev) ==
    [tag |-> "ConstantMediumPhase1", original_rec |-> original_rec,
     original_t |-> original_t, medium |-> medium, hit_anything_prev |-> hit_anything_prev]
Switch_ConstantMediumPhase2(original_rec, original_t, rec_1, medium, hit_anything_prev) ==
    [tag |-> "ConstantMediumPhase2", original_rec |-> original_rec,
     original_t |-> original_t, rec_1 |-> rec_1, medium |-> medium,
     hit_anything_prev |-> hit_anything_prev]

push(stack, v) == Append(stack, v)

\* A variant that pushes every frame twice.
PushAll_Twice(stack, frames) == stack \o frames \o frames

RECURSIVE PushAll(_, _)
PushAll(stack, frames) ==
    IF frames = <<>> THEN stack ELSE PushAll(push(stack, Head(frames)), Tail(frames))

\* The initial tmin of hit_anything, 0.001.
TMin0 == TScale \div 1000

\* The rotation RotateY applies to the ray on the way in (ray.rs:213-224) ...
RotateIn(p, sin, cos) == <<cos * p[1] - sin * p[3], p[2], sin * p[1] + cos * p[3]>>
\* ... and the one RayRotateY applies to the record on the way out (ray.rs:85-95).
RotateOut(p, sin, cos) == <<cos * p[1] + sin * p[3], p[2], (-sin) * p[1] + cos * p[3]>>

\* The frames the BVH arm pushes, in push order (ray.rs:177-197).
BvhPushes(left, right, res) ==
    LET left_t == res[1].t
        hit_left == res[1].hit
        right_t == res[2].t
        hit_right == res[2].hit
    IN  IF right # None
        THEN (IF hit_left /\ hit_right
              THEN (IF FLe(left_t.max, right_t.max)
                    THEN <<Switch_Hittable(right[1]), Switch_Hittable(left)>>
                    ELSE <<Switch_Hittable(left), Switch_Hittable(right[1])>>)
              ELSE IF hit_left THEN <<Switch_Hittable(left)>>
              ELSE IF hit_right THEN <<Switch_Hittable(right[1])>>
              ELSE <<>>)
        ELSE IF hit_left THEN <<Switch_Hittable(left)>>
        ELSE <<>>

\* A variant that records a hit without tightening tmax.
AfterPrimitive_NoTighten(s, r) ==
    IF ~r.hit THEN s
    ELSE [s EXCEPT !.rec = r.rec, !.hit_anything = TRUE]

\* ray.rs:266-269: what follows a primitive's hit test.
AfterPrimitive(s, r) ==
    IF ~r.hit THEN s
    ELSE [s EXCEPT !.rec = r.rec, !.hit_anything = TRUE, !.tmax = r.rec.t]

\* The arm of `match &hittable.kind` for node h; s has the frame popped already.
Visit(s, h) ==
    LET t == Interval_new(s.tmin, s.tmax)
    IN  CASE h.kind = "Sphere" -> AfterPrimitive(s, Sphere_hit(h, s.ray, t, s.rec))
          [] h.kind = "Quad" -> AfterPrimitive(s, Quad_hit(h, s.ray, t, s.rec))
          [] h.kind = "MovingSphere" ->
                AfterPrimitive(s, MovingSphere_hit(h, s.ray, t, s.rec))
          [] h.kind = "BVH" ->
                [s EXCEPT !.stack = PushAll(s.stack,
                                            BvhPushes(h.left, h.right,
                                                      AABBx2_hit(h.aabbs, s.ray, t)))]
          [] h.kind = "Move" ->
                [s EXCEPT !.ray.origin = VSub(s.ray.origin, h.offset),
                          !.stack = push(push(s.stack, Switch_RayMove(h.offset, s.hit_anything)),
                                         Switch_Hittable(h.obj)),
                          !.hit_anything = FALSE]
          [] h.kind = "RotateY" ->
                [s EXCEPT !.ray.origin = RotateIn(s.ray.origin, h.sin, h.cos),
                          !.ray.direction = RotateIn(s.ray.direction, h.sin, h.cos),
                          !.stack = push(push(s.stack,
                                              Switch_RayRotateY(s.ray, s.hit_anything,
                                                                h.sin, h.cos)),
                                         Switch_Hittable(h.obj))]
          [] h.kind = "List" ->
                [s EXCEPT !.stack = PushAll(s.stack,
                                            [i \in 1..Len(h.items) |->
                                                Switch_Hittable(h.items[i])])]
          [] h.kind = "ConstantMedium" ->
                [s EXCEPT !.stack = push(push(s.stack,
                                              Switch_ConstantMediumPhase1(s.rec, t, h.medium,
                                                                          s.hit_anything)),
                                         Switch_Hittable(h.medium.boundary)),
                          !.rec = HitRecord_default,
                          !.hit_anything = FALSE,
                          !.tmin = Interval_UNIVERSE.min,
                          !.tmax = Interval_UNIVERSE.max]

\* A variant that keeps a hit only if one existed before the node too.
PopRayMove_And(s, f) ==
    [s EXCEPT !.ray.origin = VAdd(s.ray.origin, f.vec3),
              !.rec.point = IF s.hit_anything THEN VAdd(s.rec.point, f.vec3) ELSE @,
              !.hit_anything = s.hit_anything /\ f.hit]

\* ray.rs:70-79
PopRayMove(s, f) ==
    [s EXCEPT !.ray.origin = VAdd(s.ray.origin, f.vec3),
              !.rec.point = IF s.hit_anything THEN VAdd(s.rec.point, f.vec3) ELSE @,
              !.hit_anything = s.hit_anything \/ f.hit]

\* A variant that leaves the rotated ray in place.
PopRayRotateY_KeepRay(s, f) ==
    [s EXCEPT !.rec.point = IF s.hit_anything THEN RotateOut(s.rec.point, f.sin, f.cos) ELSE @,
              !.rec.normal = IF s.hit_anything THEN RotateOut(s.rec.normal, f.sin, f.cos) ELSE @,
              !.hit_anything = s.hit_anything \/ f.hit_anything_prev]

\* ray.rs:81-100
PopRayRotateY(s, f) ==
    [s EXCEPT !.ray = f.original_ray,
              !.rec.point = IF s.hit_anything THEN RotateOut(s.rec.point, f.sin, f.cos) ELSE @,
              !.rec.normal = IF s.hit_anything THEN RotateOut(s.rec.normal, f.sin, f.cos) ELSE @,
              !.hit_anything = s.hit_anything \/ f.hit_anything_prev]

\* A variant that leaves the search range as the boundary search left it.
PopConstantMediumPhase1_KeepRange(s, f) ==
    IF ~s.hit_anything
    THEN [s EXCEPT !.hit_anything = f.hit_anything_prev,
                   !.rec = f.original_rec]
    ELSE [s EXCEPT !.stack = push(push(s.stack,
                                       Switch_ConstantMediumPhase2(f.original_rec, f.original_t,
                                                                   s.rec, f.medium,
                                                                   f.hit_anything_prev)),
                                  Switch_Hittable(f.medium.boundary)),
                   !.tmin = 1 + s.rec.t,
                   !.tmax = Interval_UNIVERSE.max,
                   !.rec = HitRecord_default,
                   !.hit_anything = FALSE]

\* ray.rs:103-122
PopConstantMediumPhase1(s, f) ==
    IF ~s.hit_anything
    THEN [s EXCEPT !.hit_anything = f.hit_anything_prev,
                   !.rec = f.original_rec,
                   !.tmin = f.original_t.min,
                   !.tmax = f.original_t.max]
    ELSE [s EXCEPT !.stack = push(push(s.stack,
                                       Switch_ConstantMediumPhase2(f.original_rec, f.original_t,
                                                                   s.rec, f.medium,
                                                                   f.hit_anything_prev)),
                                  Switch_Hittable(f.medium.boundary)),
                   !.tmin = 1 + s.rec.t,
                   !.tmax = Interval_UNIVERSE.max,
                   !.rec = HitRecord_default,
                   !.hit_anything = FALSE]

\* f32::ln of value / SeedMod for value in 0..SeedMod - 1, in units of 1/TScale.
LnTable == <<NInf, -20794, -13863, -9808, -6931, -4700, -2877, -1335>>
Ln(value) == LnTable[value + 1]

\* ray.rs:133-143: the clamped entry and exit t, and the free-flight sample when
\* the code comes to draw it: inside says whether a hit is declared.
MediumSample(s, f) ==
    LET tmin == f.original_t.min
        tmax == f.original_t.max
        entry == IF f.rec_1.t < tmin THEN tmin ELSE f.rec_1.t
        exit == IF s.rec.t > tmax THEN tmax ELSE s.rec.t
        rec_1_t == FMax(entry, 0)
        ray_len == length(s.ray.direction)
        distance_inside_bounds == (exit - rec_1_t) * ray_len
        draw == next_f32(s.seed)
        ln == Ln(draw.value)
        hit_distance == IF IsInf(ln) THEN PInf ELSE (f.medium.neg_inv_density * ln) \div TScale
    IN  IF entry >= exit THEN [drawn |-> FALSE, inside |-> FALSE]
        ELSE [drawn |-> TRUE, seed |-> draw.seed, entry |-> rec_1_t, exit |-> exit,
              inside |-> ~(hit_distance > distance_inside_bounds),
              t |-> IF IsInf(hit_distance) THEN PInf ELSE rec_1_t + hit_distance \div ray_len]

\* A variant that puts the hit at the exit of the boundary plus the sampled distance.
PopConstantMediumPhase2_FromExit(s, f) ==
    LET restored == [s EXCEPT !.rec = f.original_rec,
                              !.tmin = f.original_t.min,
                              !.tmax = f.original_t.max,
                              !.hit_anything = f.hit_anything_prev]
        m == MediumSample(s, f)
    IN  IF ~s.hit_anything THEN restored
        ELSE IF ~m.drawn THEN restored
        ELSE IF ~m.inside THEN [restored EXCEPT !.seed = m.seed]
        ELSE [restored EXCEPT !.seed = m.seed,
                              !.rec = [f.original_rec EXCEPT
                                          !.t = m.exit + (m.t - m.entry),
                                          !.point = at(s.ray, m.exit + (m.t - m.entry)),
                                          !.normal = <<1, 0, 0>>,
                                          !.front_face = TRUE,
                                          !.material = f.medium.phase_function],
                              !.tmax = m.exit + (m.t - m.entry),
                              !.hit_anything = TRUE]

\* ray.rs:125-157
PopConstantMediumPhase2(s, f) ==
    LET restored == [s EXCEPT !.rec = f.original_rec,
                              !.tmin = f.original_t.min,
                              !.tmax = f.original_t.max,
                              !.hit_anything = f.hit_anything_prev]
        m == MediumSample(s, f)
    IN  IF ~s.hit_anything THEN restored
        ELSE IF ~m.drawn THEN restored
        ELSE IF ~m.inside THEN [restored EXCEPT !.seed = m.seed]
        ELSE [restored EXCEPT !.seed = m.seed,
                              !.rec = [f.original_rec EXCEPT
                                          !.t = m.t,
                                          !.point = at(s.ray, m.t),
                                          !.normal = <<1, 0, 0>>,
                                          !.front_face = TRUE,
                                          !.material = f.medium.phase_function],
                              !.tmax = m.t,
                              !.hit_anything = TRUE]

\* One iteration of `while let Some(hittable) = hittable_stack.pop()`.
LoopBody(s) ==
    LET top == s.stack[Len(s.stack)]
        popped == [s EXCEPT !.stack = SubSeq(s.stack, 1, Len(s.stack) - 1)]
    IN  CASE top.tag = "RayMove" -> PopRayMove(popped, top)
          [] top.tag = "RayRotateY" -> PopRayRotateY(popped, top)
          [] top.tag = "ConstantMediumPhase1" -> PopConstantMediumPhase1(popped, top)
          [] top.tag = "ConstantMediumPhase2" -> PopConstantMediumPhase2(popped, top)
          [] top.tag = "Hittable" -> Visit(popped, top.node)

\* ray.rs:61-66: the locals of hit_anything and the push of the root.
Enter(self, seed, rec, world, hittable_stack) ==
    [stack |-> push(hittable_stack, Switch_Hittable(world)), ray |-> self,
     hit_anything |-> FALSE, tmin |-> TMin0, tmax |-> PInf, rec |-> rec, seed |-> seed]

\* A variant that returns as soon as a hit is recorded.
RECURSIVE RunLoop_FirstHit(_)
RunLoop_FirstHit(s) ==
    IF s.stack = <<>> \/ s.hit_anything THEN s ELSE Then(LoopBody(s), RunLoop_FirstHit)

\* The whole call: the loop run until the stack is empty.
RECURSIVE RunLoop(_)
RunLoop(s) == IF s.stack = <<>> THEN s ELSE Then(LoopBody(s), RunLoop)

hit_anything(self, seed, rec, world, hittable_stack) ==
    RunLoop(Enter(self, seed, rec, world, hittable_stack))

(***************************************************************************)
(* State.  Each variable is one object of the program (a record of its     *)
(* fields or locals); a specification that does not run an object leaves   *)
(* it Idle.                                                                *)
(***************************************************************************)
VARIABLES
    trav,       \* a call of Ray::hit_anything: its arguments and locals; or of AABBx2::hit
    build,      \* a call of Hittable::bvh, of Matrix::mul or of a function that makes an AABB
    tracer,     \* a call of RaytracingCamera::ray_colour
    render,     \* a render pass: the buffers and the row tasks, or one written pixel
    camera,     \* the Camera object
    log         \* history: the last call on the camera and the passes since the last change

vars == <<trav, build, tracer, render, camera, log>>

Idle == [pc |-> "idle"]

(***************************************************************************)
(* Scenes and rays of the traversal specification                          *)
(***************************************************************************)
\* The most children a List or the input of Hittable::bvh has.
MaxItems == 2

Mat(i) == lambertian(Texture_colour(<<i, i, i>>))

Prims ==
    << Sphere_new(<<0, 0, 5>>, 1, Mat(1)),
       Quad_new(<<-1, -1, 3>>, <<2, 0, 0>>, <<0, 2, 0>>, Mat(2)),
       MovingSphere_new(<<0, 0, 8>>, <<2, 0, 8>>, 1, Mat(3)) >>

\* A transform is Move by (1, 0, 0) or RotateY by 90 degrees (sin 1, cos 0); a
\* chain lists the transforms wrapped around a node, innermost first.
Chains == << <<>>, <<"M">>, <<"R">>, <<"M", "R">>, <<"R", "M">> >>
OuterChains == { <<>>, <<"R", "M">> }

RECURSIVE Wrap(_, _)
Wrap(h, chain) ==
    IF chain = <<>> THEN h
    ELSE Wrap(IF Head(chain) = "M" THEN Hittable_move_by(h, <<1, 0, 0>>)
              ELSE Hittable_rotate_y(h, 1, 0),
              Tail(chain))

NItems == Len(Prims) * Len(Chains)
Item(i) == Wrap(Prims[((i - 1) % Len(Prims)) + 1], Chains[((i - 1) \div Len(Prims)) + 1])

\* The item lists: the items of each set of at most MaxItems indices, in
\* increasing order.
RECURSIVE IndexSets(_, _)
IndexSets(from, n) ==
    IF n = 0 THEN {<<>>}
    ELSE {<<>>} \cup
         UNION {{<<i>> \o rest : rest \in IndexSets(i + 1, n - 1)} : i \in from..NItems}

ItemLists == {[k \in 1..Len(is) |-> Item(is[k])] : is \in IndexSets(1, MaxItems) \ {<<>>}}

Worlds ==
    {Wrap(Hittable_list(l), c) : l \in ItemLists, c \in OuterChains}
    \cup {Wrap(bvh(l), c) : l \in ItemLists, c \in OuterChains}

Rays ==
    {Ray_new(<<x, 0, z>>, d, time) :
        x \in {-1, 0, 1}, z \in {0, 5},
        d \in {<<0, 0, 1>>, <<0, 0, -1>>, <<1, 0, 0>>, <<-1, 0, 0>>},
        time \in {0, TScale \div 2}}

(***************************************************************************)
(* SpecTrav: one call of hit_anything on an empty work stack, one loop     *)
(* iteration per step.                                                     *)
(***************************************************************************)
TravCall(self, seed, world) ==
    [pc |-> "call", self |-> self, seed |-> seed, world |-> world, stack |-> <<>>, ray |-> self,
     hit_anything |-> FALSE, tmin |-> TMin0, tmax |-> PInf, rec |-> HitRecord_default,
     marks |-> <<>>, hits |-> 0, done |-> <<>>, tested |-> <<>>, pushed |-> 0, popped |-> 0]

Locals(t) ==
    [stack |-> t.stack, ray |-> t.ray, hit_anything |-> t.hit_anything,
     tmin |-> t.tmin, tmax |-> t.tmax, rec |-> t.rec, seed |-> t.seed]

WithLocals(t, s, pc) ==
    [t EXCEPT !.pc = pc, !.stack = s.stack, !.ray = s.ray,
              !.hit_anything = s.hit_anything, !.tmin = s.tmin, !.tmax = s.tmax,
              !.rec = s.rec, !.seed = s.seed]

InitTrav ==
    /\ \E self \in Rays, world \in Worlds : trav = TravCall(self, SEED, world)
    /\ build = Idle /\ tracer = Idle /\ render = Idle /\ camera = Idle /\ log = Idle

TravEnter ==
    /\ trav.pc = "call"
    /\ trav' = WithLocals(trav, Enter(trav.self, trav.seed, trav.rec, trav.world, trav.stack), "loop")
    /\ UNCHANGED <<build, tracer, render, camera, log>>

\* History of the call, kept beside its locals: marks has one entry for each
\* Move, RotateY or ConstantMedium node whose continuation is still on the
\* stack, with the ray, the flag, the record and the range the node was visited
\* with; hits counts the primitive hit tests that returned true; done is the
\* mark of the node whose visit the last iteration ended, with whether the
\* node's child was hit and, for a medium, whether a hit was declared and
\* between which t of the entry hit and of the exit hit, and empty otherwise.
\* A mark counts in searches the frames of a medium's boundary pushed for it;
\* tested lists the primitive hit tests made, each with the continuation
\* frames it was made above; pushed and popped count continuation frames.
Continuations(stack) == SelectSeq(stack, LAMBDA f : f.tag # "Hittable")

History(t, next) ==
    LET top == t.stack[Len(t.stack)]
        visit == top.tag = "Hittable"
        rest == SubSeq(t.stack, 1, Len(t.stack) - 1)
        grown == IF Len(next.stack) > Len(rest)
                    /\ next.stack[Len(next.stack)].tag = "Hittable" THEN 1 ELSE 0
        mark == t.marks[Len(t.marks)]
        range == Interval_new(t.tmin, t.tmax)
        hit == CASE top.node.kind = "Sphere" -> Sphere_hit(top.node, t.ray, range, t.rec).hit
                 [] top.node.kind = "Quad" -> Quad_hit(top.node, t.ray, range, t.rec).hit
                 [] top.node.kind = "MovingSphere" ->
                       MovingSphere_hit(top.node, t.ray, range, t.rec).hit
                 [] OTHER -> FALSE
        ends == top.tag \in {"RayMove", "RayRotateY", "ConstantMediumPhase2"}
                    \/ (top.tag = "ConstantMediumPhase1" /\ ~t.hit_anything)
        sample == IF top.tag = "ConstantMediumPhase2" /\ t.hit_anything
                  THEN MediumSample(Locals(t), top)
                  ELSE [drawn |-> FALSE, inside |-> FALSE]
    IN  [next EXCEPT
            !.marks = IF visit /\ top.node.kind \in {"Move", "RotateY", "ConstantMedium"}
                      THEN Append(t.marks, [kind |-> top.node.kind, node |-> top.node,
                                            ray |-> t.ray,
                                            hit |-> t.hit_anything, rec |-> t.rec,
                                            tmin |-> t.tmin, tmax |-> t.tmax,
                                            hits |-> t.hits, searches |-> grown])
                      ELSE IF ends THEN SubSeq(t.marks, 1, Len(t.marks) - 1)
                      ELSE IF top.tag = "ConstantMediumPhase1"
                      THEN [t.marks EXCEPT ![Len(t.marks)].searches = @ + grown]
                      ELSE t.marks,
            !.tested = IF visit /\ top.node.kind \in {"Sphere", "Quad", "MovingSphere"}
                       THEN Append(t.tested, [prim |-> top.node, above |-> Continuations(rest)])
                       ELSE t.tested,
            !.pushed = t.pushed + Len(Continuations(next.stack)) - Len(Continuations(rest)),
            !.popped = IF visit THEN t.popped ELSE t.popped + 1,
            !.hits = IF visit /\ hit THEN t.hits + 1 ELSE t.hits,
            !.done = IF ends
                     THEN <<[mark |-> mark, child_hit |-> t.hits > mark.hits,
                             declared |-> sample.inside,
                             entry_t |-> IF sample.inside THEN top.rec_1.t ELSE 0,
                             exit_t |-> IF sample.inside THEN t.rec.t ELSE 0]>>
                     ELSE <<>>]

TravLoop ==
    /\ trav.pc = "loop" /\ trav.stack # <<>>
    /\ trav' = History(trav, WithLocals(trav, LoopBody(Locals(trav)), "loop"))
    /\ UNCHANGED <<build, tracer, render, camera, log>>

TravReturn ==
    /\ trav.pc = "loop" /\ trav.stack = <<>>
    /\ trav' = [trav EXCEPT !.pc = "returned"]
    /\ UNCHANGED <<build, tracer, render, camera, log>>

NextTrav == TravEnter \/ TravLoop \/ TravReturn

SpecTrav == InitTrav /\ [][NextTrav]_vars

(***************************************************************************)
(* The primitives of a tree, each with the ray as its ancestors' transforms*)
(* hand it down, and the intersections a ray has with them.                *)
(***************************************************************************)
RECURSIVE PrimRays(_, _)
PrimRays(h, ray) ==
    CASE h.kind \in {"Sphere", "Quad", "MovingSphere"} -> {[prim |-> h, ray |-> ray]}
      [] h.kind = "BVH" ->
            PrimRays(h.left, ray) \cup (IF h.right # None THEN PrimRays(h.right[1], ray) ELSE {})
      [] h.kind = "List" -> UNION {PrimRays(h.items[i], ray) : i \in 1..Len(h.items)}
      [] h.kind = "Move" ->
            PrimRays(h.obj, [ray EXCEPT !.origin = VSub(ray.origin, h.offset)])
      [] h.kind = "RotateY" ->
            PrimRays(h.obj, [ray EXCEPT !.origin = RotateIn(ray.origin, h.sin, h.cos),
                                        !.direction = RotateIn(ray.direction, h.sin, h.cos)])

PrimHit(pr, t) ==
    CASE pr.prim.kind = "Sphere" -> Sphere_hit(pr.prim, pr.ray, t, HitRecord_default)
      [] pr.prim.kind = "Quad" -> Quad_hit(pr.prim, pr.ray, t, HitRecord_default)
      [] pr.prim.kind = "MovingSphere" ->
            MovingSphere_hit(pr.prim, pr.ray, t, HitRecord_default)

\* The records of the intersections at a t in the search range that starts at 0.001.
TrueHits(world, ray) ==
    {PrimHit(pr, Interval_new(TMin0, PInf)).rec :
        pr \in {q \in PrimRays(world, ray) : PrimHit(q, Interval_new(TMin0, PInf)).hit}}

\* C1: when hit_anything returns, it returns true iff some primitive of the tree is
\* intersected in the search range, and then rec.t is the least such t and
\* rec.material the material of a primitive hit at that t.
C1_NearestHit ==
    trav.pc = "returned" =>
        LET hits == TrueHits(trav.world, trav.self)
        IN  /\ trav.hit_anything <=> hits # {}
            /\ trav.hit_anything =>
                  /\ \A h \in hits : trav.rec.t <= h.t
                  /\ \E h \in hits : h.t = trav.rec.t /\ h.material = trav.rec.material

\* The last iteration popped the continuation of a Move or RotateY node.
Popped ==
    /\ trav.pc = "loop" /\ trav.done # <<>>
    /\ trav.done[1].mark.kind \in {"Move", "RotateY"}

\* C19: when the RayRotateY of a RotateY node is popped, the node having been
\* visited with a hit already recorded and its child not having been hit, the
\* point and the normal of the record are the ones recorded before the visit.
C19_SiblingRecordKept ==
    (Popped /\ trav.done[1].mark.kind = "RotateY" /\ trav.done[1].mark.hit
        /\ ~trav.done[1].child_hit) =>
        /\ trav.rec.point = trav.done[1].mark.rec.point
        /\ trav.rec.normal = trav.done[1].mark.rec.normal

\* C20: when the continuation of a Move or RotateY node is popped, the current
\* ray is the ray the node was visited with and hit_anything is (the child was
\* hit) or (a hit existed before the visit); and every primitive is tested with
\* the ray its ancestors' transforms, and only they, make of the call's ray.
C20_RayAndFlagRestored ==
    /\ Popped =>
          /\ trav.ray = trav.done[1].mark.ray
          /\ trav.hit_anything = (trav.done[1].child_hit \/ trav.done[1].mark.hit)
    /\ (trav.pc = "loop" /\ trav.stack # <<>>) =>
          LET top == trav.stack[Len(trav.stack)]
          IN  (top.tag = "Hittable" /\ top.node.kind \in {"Sphere", "Quad", "MovingSphere"}) =>
                  [prim |-> top.node, ray |-> trav.ray] \in PrimRays(trav.world, trav.self)

\* A Move node inside another transform, visited after a hit, whose child is
\* not hit; the next frame on the stack is a later sibling's.
C20_Witness ==
    /\ Popped /\ trav.done[1].mark.kind = "Move"
    /\ trav.done[1].mark.hit /\ ~trav.done[1].child_hit
    /\ trav.done[1].mark.ray # trav.self
    /\ trav.stack # <<>>

(***************************************************************************)
(* The traversal with the two children of a BVH node pushed in the other   *)
(* order, to compare hit_anything with.                                    *)
(***************************************************************************)
Reverse(seq) == [i \in 1..Len(seq) |-> seq[Len(seq) + 1 - i]]

LoopBody_OtherOrder(s) ==
    LET top == s.stack[Len(s.stack)]
        popped == [s EXCEPT !.stack = SubSeq(s.stack, 1, Len(s.stack) - 1)]
        t == Interval_new(s.tmin, s.tmax)
    IN  IF top.tag = "Hittable" /\ top.node.kind = "BVH"
        THEN [popped EXCEPT !.stack =
                 PushAll(popped.stack,
                         Reverse(BvhPushes(top.node.left, top.node.right,
                                           AABBx2_hit(top.node.aabbs, s.ray, t))))]
        ELSE LoopBody(s)

RECURSIVE RunLoop_OtherOrder(_)
RunLoop_OtherOrder(s) ==
    IF s.stack = <<>> THEN s ELSE Then(LoopBody_OtherOrder(s), RunLoop_OtherOrder)

\* Both boxes of BVH node h pass the slab test for the ray in the range t.
BothBoxesHit(h, ray, t) ==
    /\ h.kind = "BVH" /\ h.right # None
    /\ AABBx2_hit(h.aabbs, ray, t)[1].hit /\ AABBx2_hit(h.aabbs, ray, t)[2].hit

OrderPool ==
    << Sphere_new(<<0, 0, 5>>, 3, Mat(4)), Prims[1], Prims[2], Prims[3] >>

\* The slices of one pool item or of two different ones, in either order.
OrderLists ==
    {<<OrderPool[i]>> : i \in DOMAIN OrderPool}
    \cup {<<OrderPool[i], OrderPool[j]>> : i \in DOMAIN OrderPool, j \in DOMAIN OrderPool}

OrderWorlds == {bvh(l) : l \in {m \in OrderLists : Len(m) = 1 \/ m[1] # m[2]}}

InitOrder ==
    /\ \E self \in Rays, world \in OrderWorlds : trav = TravCall(self, SEED, world)
    /\ build = Idle /\ tracer = Idle /\ render = Idle /\ camera = Idle /\ log = Idle

SpecOrder == InitOrder /\ [][NextTrav]_vars

\* The frames a visit of BVH node h must push by the rule "the children that
\* exist and whose box test passed, the nearer one last", nearer being the box
\* the ray enters first; a set, for the two orders of a tie.
HitChildrenNearerLast(h, ray, t) ==
    LET res == AABBx2_hit(h.aabbs, ray, t)
        l == Switch_Hittable(h.left)
    IN  IF h.right = None THEN {IF res[1].hit THEN <<l>> ELSE <<>>}
        ELSE LET r == Switch_Hittable(h.right[1])
             IN  IF res[1].hit /\ res[2].hit
                 THEN {<<r, l>> : x \in {y \in {1} : FLe(res[1].t.min, res[2].t.min)}}
                      \cup {<<l, r>> : x \in {y \in {1} : FLe(res[2].t.min, res[1].t.min)}}
                 ELSE IF res[1].hit THEN {<<l>>}
                 ELSE IF res[2].hit THEN {<<r>>}
                 ELSE {<<>>}

\* C25: the visit of a BVH node replaces the node's frame with the frames of
\* the existing children whose box test passed, the nearer child on top.
C25_PushesHitChildren ==
    [][(trav.pc = "loop" /\ trav.stack # <<>>
            /\ trav.stack[Len(trav.stack)].tag = "Hittable"
            /\ trav.stack[Len(trav.stack)].node.kind = "BVH")
        => \E pushes \in HitChildrenNearerLast(trav.stack[Len(trav.stack)].node, trav.ray,
                                               Interval_new(trav.tmin, trav.tmax)) :
              trav'.stack = SubSeq(trav.stack, 1, Len(trav.stack) - 1) \o pushes]_vars

(***************************************************************************)
(* SpecMedium: hit_anything on lists of one or two of the items of         *)
(* MediumPool, which are constant media in a sphere, around the rays'      *)
(* origins or behind a quad, and two solid primitives, for every seed      *)
(* whose first draw differs.                                               *)
(***************************************************************************)
MediumPool ==
    << Hittable_constant_medium(ConstantMedium_new(Prims[1], TScale \div 2,
                                                   Texture_colour(<<4, 4, 4>>))),
       Hittable_constant_medium(ConstantMedium_new(Prims[1], 2 * TScale,
                                                   Texture_colour(<<5, 5, 5>>))),
       Hittable_constant_medium(ConstantMedium_new(Sphere_new(<<0, 0, 2>>, 4, Mat(1)),
                                                   TScale \div 2, Texture_colour(<<6, 6, 6>>))),
       Hittable_constant_medium(ConstantMedium_new(Prims[2], 2 * TScale,
                                                   Texture_colour(<<7, 7, 7>>))),
       Hittable_move_by(
           Hittable_constant_medium(ConstantMedium_new(Prims[1], 2 * TScale,
                                                       Texture_colour(<<8, 8, 8>>))),
           <<1, 0, 0>>),
       Prims[1],
       Prims[2] >>

MediumWorlds ==
    {Hittable_list(<<MediumPool[i]>>) : i \in DOMAIN MediumPool}
    \cup {Hittable_list(<<MediumPool[p[1]], MediumPool[p[2]]>>) :
             p \in {q \in (DOMAIN MediumPool) \X (DOMAIN MediumPool) : q[1] # q[2]}}

MediumSeeds == {Seed_new(<<6, 9, 4, k>>) : k \in 0..(SeedMod - 1)}

InitMedium ==
    /\ \E self \in Rays, seed \in MediumSeeds, world \in MediumWorlds :
          trav = TravCall(self, seed, world)
    /\ build = Idle /\ tracer = Idle /\ render = Idle /\ camera = Idle /\ log = Idle

SpecMedium == InitMedium /\ [][NextTrav]_vars

\* The last iteration ended the visit of a ConstantMedium node.
MediumEnded ==
    /\ trav.pc = "loop" /\ trav.done # <<>>
    /\ trav.done[1].mark.kind = "ConstantMedium"

\* C21: when the visit of a ConstantMedium node ends without a hit declared,
\* hit_anything, the record, tmin and tmax are those the node was visited with.
C21_CallerStateRestored ==
    (MediumEnded /\ ~trav.done[1].declared) =>
        /\ trav.hit_anything = trav.done[1].mark.hit
        /\ trav.rec = trav.done[1].mark.rec
        /\ trav.tmin = trav.done[1].mark.tmin
        /\ trav.tmax = trav.done[1].mark.tmax

\* A medium visited after a hit at a finite t, its boundary entered and left,
\* and the free flight longer than the way through it.
C21_Witness ==
    /\ MediumEnded /\ ~trav.done[1].declared
    /\ trav.done[1].child_hit
    /\ trav.done[1].mark.hit /\ trav.done[1].mark.tmax < PInf
    /\ trav.seed.drawn > 0

\* C22: when a ConstantMedium node declares a hit, the record's t is at least
\* the entry t raised to the caller's tmin and to 0 and at most the exit t
\* lowered to the caller's tmax, tmax is that t, the material is the medium's
\* phase function and hit_anything is true.
C22_MediumHitInside ==
    (MediumEnded /\ trav.done[1].declared) =>
        LET d == trav.done[1]
        IN  /\ FMax(FMax(d.entry_t, d.mark.tmin), 0) <= trav.rec.t
            /\ trav.rec.t <= FMin(d.exit_t, d.mark.tmax)
            /\ trav.rec.t <= d.mark.tmax
            /\ trav.tmax = trav.rec.t
            /\ trav.rec.material = d.mark.node.medium.phase_function
            /\ trav.hit_anything

\* A hit declared in a medium visited after a hit at a finite t, strictly
\* inside the boundary.
C22_Witness ==
    /\ MediumEnded /\ trav.done[1].declared
    /\ trav.done[1].mark.hit /\ trav.done[1].mark.tmax < PInf
    /\ trav.done[1].entry_t < trav.rec.t /\ trav.rec.t < trav.done[1].exit_t

(***************************************************************************)
(* SpecHalt: hit_anything on the worlds of SpecTrav and SpecMedium for the *)
(* rays from the z axis, with the loop running on: it is straight-line     *)
(* code on one thread, so a step that can be taken is taken.               *)
(***************************************************************************)
HaltRays ==
    {r \in Rays : r.time = 0 /\ r.origin[1] = 0 /\ r.direction \in {<<0, 0, 1>>, <<1, 0, 0>>}}

HaltCalls ==
    {TravCall(self, SEED, world) :
        self \in HaltRays, world \in Worlds \cup MediumWorlds}

InitHalt ==
    /\ \E call \in HaltCalls : trav = call
    /\ build = Idle /\ tracer = Idle /\ render = Idle /\ camera = Idle /\ log = Idle

\* Weak fairness of TravLoop, with ENABLED <<TravLoop>>_vars written out: an
\* iteration pops a frame and counts it or the test it makes, so it changes
\* trav whenever its guard holds.
LoopRunsOn ==
    []<>(~(trav.pc = "loop" /\ trav.stack # <<>>)) \/ []<><<TravLoop>>_vars

SpecHalt ==
    InitHalt /\ [][NextTrav]_vars /\ WF_vars(TravEnter) /\ WF_vars(TravReturn) /\ LoopRunsOn

NoRepeats(seq) == \A i, j \in DOMAIN seq : i # j => seq[i] # seq[j]

\* No primitive has been tested twice above the same continuation frames, no
\* medium has had its boundary pushed more than twice, and the continuation
\* frames pushed so far are the ones popped and the ones still on the stack.
TestedOnce ==
    trav.pc \in {"loop", "returned"} =>
        /\ NoRepeats(trav.tested)
        /\ \A i \in DOMAIN trav.marks : trav.marks[i].searches <= 2
        /\ trav.done # <<>> => trav.done[1].mark.searches <= 2
        /\ trav.pushed = trav.popped + Len(Continuations(trav.stack))
        /\ trav.pc = "returned" => trav.pushed = trav.popped

\* C27: every call of hit_anything returns, having tested no primitive twice in
\* the same boundary search, searched no medium's boundary more than twice and
\* popped every continuation frame it pushed.
C27_HaltsTestedOnce == []TestedOnce /\ (trav.pc = "call" ~> trav.pc = "returned")

\* A call is back whose last iteration ended a medium that had its boundary
\* searched twice, after three or more primitive tests.
C27_Witness ==
    /\ trav.pc = "returned"
    /\ trav.done # <<>> /\ trav.done[1].mark.kind = "ConstantMedium"
    /\ trav.done[1].mark.searches = 2
    /\ Len(trav.tested) >= 3 /\ trav.popped >= 2 /\ trav.pushed = trav.popped

(***************************************************************************)
(* SpecInverse: hit_anything on a primitive moved by an offset and moved   *)
(* back, Hittable::move_by(offset) followed by Hittable::move_by(-offset). *)
(***************************************************************************)
MaxOffset == 1

Offsets == {<<x, y, z>> : x \in -MaxOffset..MaxOffset, y \in -MaxOffset..MaxOffset,
                          z \in -MaxOffset..MaxOffset}

MovedBack(h, offset) == Hittable_move_by(Hittable_move_by(h, offset), VNeg(offset))

InitInverse ==
    /\ \E self \in Rays, i \in DOMAIN Prims, offset \in Offsets :
          trav = TravCall(self, SEED, MovedBack(Prims[i], offset))
    /\ build = Idle /\ tracer = Idle /\ render = Idle /\ camera = Idle /\ log = Idle

SpecInverse == InitInverse /\ [][NextTrav]_vars

\* C11: hit_anything on Move(Move(P, o), -o) returns the flag that hit_anything
\* on P returns for the same ray, and leaves the same point, normal and t in the
\* record.
C11_MovesCancel ==
    trav.pc = "returned" =>
        LET direct == hit_anything(trav.self, SEED, HitRecord_default, trav.world.obj.obj, <<>>)
        IN  /\ trav.hit_anything = direct.hit_anything
            /\ trav.rec.point = direct.rec.point
            /\ trav.rec.normal = direct.rec.normal
            /\ trav.rec.t = direct.rec.t

\* A moved and moved back primitive is hit, at a point that is not the origin.
C11_Witness ==
    /\ trav.pc = "returned"
    /\ trav.hit_anything
    /\ trav.world.obj.offset # ZERO
    /\ trav.rec.point # ZERO

(***************************************************************************)
(* camera.rs: the Camera object.  Angles are whole degrees in multiples of *)
(* 90.  Of a RaytracingCamera the model keeps the image size, max_depth,   *)
(* the background colour, the centre (look_from) and w as look_from -      *)
(* look_at: its other fields are functions of these and of values no       *)
(* operation changes.                                                      *)
(***************************************************************************)
Width == 2
Height == 2
Background == <<1, 2, 0>>
MaxPos == 1
MaxSamples == 2

NPix == Width * Height

CosDeg(a) == CASE a % 360 = 0 -> 1 [] a % 360 = 180 -> -1 [] OTHER -> 0
SinDeg(a) == CASE a % 360 = 90 -> 1 [] a % 360 = 270 -> -1 [] OTHER -> 0

DirectionOf(pitch, yaw) ==
    Vec3_new(CosDeg(yaw) * CosDeg(pitch), SinDeg(pitch), SinDeg(yaw) * CosDeg(pitch))

RaytracingCamera_new(width, height, max_depth, look_from, look_at, background_colour) ==
    [image_dimensions |-> <<width, height>>, max_depth |-> max_depth,
     centre |-> look_from, w |-> VSub(look_from, look_at),
     background_colour |-> background_colour]

\* samples * colour with samples = 1.0 / n_samples: the sum and the count it is
\* divided by.
OverSamples(colour, n_samples) == [sum |-> colour, k |-> n_samples]

\* The tone maps of realtime_render and hdr_render, left uninterpreted.
ToneMap(exposure, colour) == [exposure |-> exposure, colour |-> colour]
HdrMap(colour) == [sqrt |-> colour]

\* The pixel 0 of a new final buffer: what the tone map gives for black.
Black == ToneMap(1, OverSamples(ZERO, 1))

Camera_new(position, direction, width, height, max_depth, background_colour) ==
    [position |-> position, direction |-> direction,
     background_colour |-> background_colour,
     rt_cam |-> RaytracingCamera_new(width, height, max_depth, position,
                                     VAdd(position, direction), background_colour),
     acc_colours |-> [i \in 1..(width * height) |-> ZERO],
     final_colours |-> [i \in 1..(width * height) |-> Black],
     pitch |-> 0, yaw |-> 0, samples |-> 0, world |-> "default", exposure |-> 1]

force_update_raytracing_camera(c) ==
    [c EXCEPT !.rt_cam =
        RaytracingCamera_new(c.rt_cam.image_dimensions[1], c.rt_cam.image_dimensions[2],
                             c.rt_cam.max_depth, c.position,
                             VAdd(c.position, DirectionOf(c.pitch, c.yaw)),
                             c.background_colour)]

\* A variant that clears the buffer on every pass.
update_raytracing_camera_Always(c) ==
    [force_update_raytracing_camera(c) EXCEPT
        !.acc_colours = [i \in 1..Len(c.acc_colours) |-> ZERO]]

update_raytracing_camera(c) ==
    IF c.samples # 0 THEN c
    ELSE [force_update_raytracing_camera(c) EXCEPT
            !.acc_colours = [i \in 1..Len(c.acc_colours) |-> ZERO]]

\* A variant that restarts the accumulation.
set_exposure_Restart(c, exposure) ==
    [force_update_raytracing_camera(c) EXCEPT !.exposure = exposure, !.samples = 0]

set_exposure(c, exposure) ==
    [force_update_raytracing_camera(c) EXCEPT !.exposure = exposure]

set_world(c, world) == [c EXCEPT !.samples = 0, !.world = world]

\* A variant that keeps the sample counter.
change_pitch_yaw_by_NoReset(c, delta_pitch, delta_yaw) ==
    IF delta_pitch = 0 /\ delta_yaw = 0 THEN c
    ELSE [c EXCEPT !.pitch = c.pitch + delta_pitch, !.yaw = c.yaw + delta_yaw,
                   !.direction = DirectionOf(c.pitch + delta_pitch, c.yaw + delta_yaw)]

change_pitch_yaw_by(c, delta_pitch, delta_yaw) ==
    IF delta_pitch = 0 /\ delta_yaw = 0 THEN c
    ELSE [c EXCEPT !.pitch = c.pitch + delta_pitch, !.yaw = c.yaw + delta_yaw,
                   !.direction = DirectionOf(c.pitch + delta_pitch, c.yaw + delta_yaw),
                   !.samples = 0]

\* A variant that keeps the sample counter.
move_by_NoReset(c, step) == [c EXCEPT !.position = VAdd(c.position, step)]

move_by(c, step) ==
    [c EXCEPT !.position = VAdd(c.position, step),
              !.samples = IF step # ZERO THEN 0 ELSE c.samples]

forward(c) == c.direction

\* RaytracingCamera::render as one step: sample[i] is the colour ray_colour returns
\* for pixel i of this pass; out[i] is the colour handed to the renderer closure.
\* The length assertion of its first line fails on a buffer of another size.
render_pass(rt_cam, n_samples, acc_colours, sample) ==
    IF Len(acc_colours) # rt_cam.image_dimensions[1] * rt_cam.image_dimensions[2]
    THEN Panic
    ELSE LET acc == [i \in 1..Len(acc_colours) |-> VAdd(acc_colours[i], sample[i])]
         IN  [kind |-> "Done", acc_colours |-> acc,
              out |-> [i \in 1..Len(acc) |-> OverSamples(acc[i], n_samples)]]

\* The part the three render entry points share: the camera after the pass and the
\* colours handed to the renderer.
render_entry(c, sample) ==
    LET c1 == update_raytracing_camera(c)
        c2 == [c1 EXCEPT !.samples = c1.samples + 1]
        r  == render_pass(c2.rt_cam, c2.samples, c2.acc_colours, sample)
    IN  [camera |-> [c2 EXCEPT !.acc_colours = r.acc_colours], out |-> r.out]

empty_render(c, sample) == render_entry(c, sample)

realtime_render(c, sample) ==
    LET r == render_entry(c, sample)
    IN  [r EXCEPT !.camera.final_colours =
            [i \in 1..Len(r.out) |-> ToneMap(c.exposure, r.out[i])]]

hdr_render(c, sample) ==
    LET r == render_entry(c, sample)
    IN  [r EXCEPT !.out = [i \in 1..Len(r.out) |-> HdrMap(r.out[i])]]

(***************************************************************************)
(* SpecCam: any sequence of calls on one Camera.  A render pass is one     *)
(* step; the colours its rays return are any of SampleImages.  log keeps   *)
(* the last call (op), the camera before it (before), whether a pose or    *)
(* world change was pending when it began (dirty) and is pending now       *)
(* (pending), the samples of the passes since the last change (passes),    *)
(* the colours the last pass handed to its renderer (shown), and for each  *)
(* pass that counts in the buffer, that is since the sample counter was    *)
(* last 0, the raytracing camera and the world its rays were traced with   *)
(* (taken).                                                                *)
(***************************************************************************)
\* The colours the rays of one pass return, pixel by pixel.
SampleImages ==
    {[i \in 1..NPix |-> ONE], [i \in 1..NPix |-> IF i = 1 THEN ZERO ELSE <<1, 0, 2>>]}
Steps == {ZERO, <<1, 0, 0>>, <<-1, 0, 0>>}
\* The pairs (delta_pitch, delta_yaw) and the orientations (pitch, yaw) they lead to.
Deltas == {<<0, 0>>, <<90, 90>>, <<-90, -90>>}
Orientations == {<<0, 0>>, <<90, 90>>}
Exposures == {1, 2}
CamWorlds == {"default", "scene"}
Renders == {"empty_render", "realtime_render", "hdr_render"}

InitCam ==
    /\ \E direction \in {<<1, 0, 0>>, <<0, 0, 1>>} :
          camera = Camera_new(ZERO, direction, Width, Height, 1, Background)
    /\ log = [op |-> "new", before |-> camera, dirty |-> FALSE, pending |-> FALSE,
              passes |-> <<>>, shown |-> <<>>, taken |-> <<>>]
    /\ trav = Idle /\ build = Idle /\ tracer = Idle /\ render = Idle

Changed(op, changes) ==
    log' = [log EXCEPT !.op = op, !.before = camera, !.dirty = log.pending,
                       !.pending = log.pending \/ changes,
                       !.passes = IF changes THEN <<>> ELSE log.passes,
                       !.taken = IF camera'.samples = 0 THEN <<>> ELSE log.taken]

Call_set_exposure ==
    /\ \E exposure \in Exposures : camera' = set_exposure(camera, exposure)
    /\ Changed("set_exposure", FALSE)
    /\ UNCHANGED <<trav, build, tracer, render>>

Call_set_world ==
    /\ \E world \in CamWorlds : camera' = set_world(camera, world)
    /\ Changed("set_world", TRUE)
    /\ UNCHANGED <<trav, build, tracer, render>>

Call_change_pitch_yaw_by ==
    /\ \E delta \in Deltas :
          /\ <<camera.pitch + delta[1], camera.yaw + delta[2]>> \in Orientations
          /\ camera' = change_pitch_yaw_by(camera, delta[1], delta[2])
          /\ Changed("change_pitch_yaw_by", delta[1] # 0 \/ delta[2] # 0)
    /\ UNCHANGED <<trav, build, tracer, render>>

Call_move_by ==
    /\ \E step \in Steps :
          /\ camera.position[1] + step[1] \in 0..MaxPos
          /\ camera' = move_by(camera, step)
          /\ Changed("move_by", step # ZERO)
    /\ UNCHANGED <<trav, build, tracer, render>>

Rendered(op, r, sample) ==
    /\ camera' = r.camera
    /\ log' = [op |-> op, before |-> camera, dirty |-> log.pending, pending |-> FALSE,
               passes |-> Append(log.passes, sample), shown |-> r.out,
               taken |-> Append(IF camera.samples = 0 THEN <<>> ELSE log.taken,
                                [rt_cam |-> r.camera.rt_cam, world |-> camera.world])]

CanRender == camera.samples < MaxSamples

Call_empty_render ==
    /\ CanRender
    /\ \E sample \in SampleImages :
          Rendered("empty_render", empty_render(camera, sample), sample)
    /\ UNCHANGED <<trav, build, tracer, render>>

Call_realtime_render ==
    /\ CanRender
    /\ \E sample \in SampleImages :
          Rendered("realtime_render", realtime_render(camera, sample), sample)
    /\ UNCHANGED <<trav, build, tracer, render>>

Call_hdr_render ==
    /\ CanRender
    /\ \E sample \in SampleImages :
          Rendered("hdr_render", hdr_render(camera, sample), sample)
    /\ UNCHANGED <<trav, build, tracer, render>>

NextCam ==
    \/ Call_set_exposure \/ Call_set_world \/ Call_change_pitch_yaw_by \/ Call_move_by
    \/ Call_empty_render \/ Call_realtime_render \/ Call_hdr_render

SpecCam == InitCam /\ [][NextCam]_vars

RECURSIVE SumOf(_, _)
SumOf(passes, i) ==
    IF passes = <<>> THEN ZERO ELSE VAdd(passes[1][i], SumOf(Tail(passes), i))

\* C2: a render pass that begins with a position, orientation or world change
\* pending accumulates into a zeroed buffer (every element ends as that pass's own
\* sample) and leaves the sample counter at 1.
C2_ResetOnChange ==
    (log.op \in Renders /\ log.dirty) =>
        /\ camera.samples = 1
        /\ Len(log.passes) = 1
        /\ \A i \in 1..NPix : camera.acc_colours[i] = VAdd(ZERO, log.passes[1][i])

C2_Witness ==
    /\ log.op = "realtime_render" /\ log.dirty
    /\ log.before.samples = 0
    /\ \E i \in 1..NPix : log.before.acc_colours[i] # ZERO
    /\ \E i \in 1..NPix : camera.acc_colours[i] # ZERO

\* C3: a render pass with no change pending adds 1 to the sample counter and one
\* sample to every element; after k passes since the last change the counter is k,
\* every element is the sum of its k samples, and the colour handed to the tone
\* map is that sum over k.
C3_Accumulates ==
    log.op \in Renders =>
        LET k == Len(log.passes)
        IN  /\ ~log.dirty =>
                  /\ camera.samples = log.before.samples + 1
                  /\ \A i \in 1..NPix :
                        camera.acc_colours[i] =
                            VAdd(log.before.acc_colours[i], log.passes[k][i])
            /\ camera.samples = k
            /\ \A i \in 1..NPix :
                  /\ camera.acc_colours[i] = SumOf(log.passes, i)
                  /\ log.op = "realtime_render" =>
                        /\ log.shown[i] = OverSamples(SumOf(log.passes, i), k)
                        /\ camera.final_colours[i] = ToneMap(camera.exposure, log.shown[i])
                  /\ log.op = "hdr_render" =>
                        log.shown[i] = HdrMap(OverSamples(SumOf(log.passes, i), k))

C3_Witness ==
    /\ log.op = "hdr_render" /\ ~log.dirty
    /\ camera.samples = 2 /\ log.before.samples = 1
    /\ camera.acc_colours[NPix] = <<2, 1, 3>>

\* C4: set_exposure leaves the sample counter, the accumulation buffer and every
\* other field but exposure as they were; the raytracing camera it rebuilds is the
\* one already in place whenever samples have been accumulated.
C4_ExposureFrame ==
    log.op = "set_exposure" =>
        /\ camera.samples = log.before.samples
        /\ camera.acc_colours = log.before.acc_colours
        /\ [camera EXCEPT !.exposure = 0, !.rt_cam = 0]
              = [log.before EXCEPT !.exposure = 0, !.rt_cam = 0]
        /\ camera.samples > 0 => camera.rt_cam = log.before.rt_cam

C4_Witness ==
    /\ log.op = "set_exposure"
    /\ camera.samples = 2
    /\ camera.exposure # log.before.exposure
    /\ \E i \in 1..NPix : camera.acc_colours[i] # ZERO

\* C28: while the sample counter is above 0 the raytracing camera is the one
\* that the current position, pitch and yaw give, and the passes summed in the
\* accumulation buffer, as many as the counter says, were all traced with this
\* raytracing camera and the current world.
C28_OnePoseOneWorld ==
    camera.samples > 0 =>
        /\ camera.rt_cam = force_update_raytracing_camera(camera).rt_cam
        /\ Len(log.taken) = camera.samples
        /\ \A i \in DOMAIN log.taken :
              log.taken[i] = [rt_cam |-> camera.rt_cam, world |-> camera.world]

\* Two passes have been accumulated after the camera was moved and turned and
\* the world replaced.
C28_Witness ==
    /\ camera.samples = 2 /\ Len(log.taken) = 2
    /\ camera.position # ZERO /\ camera.pitch # 0 /\ camera.world = "scene"
    /\ \E i \in 1..NPix : camera.acc_colours[i] # ZERO

\* C29: after a render pass the direction the raytracing camera looks along,
\* from its centre to its look-at point, is the one Camera::forward() reports.
C29_LooksForward ==
    log.op \in Renders => VNeg(camera.rt_cam.w) = forward(camera)

\* vec3.rs: random_in_unit_sphere draws three coordinates in (-1, 1), here the odd
\* integers 2 * value + 1 - SeedMod in units of 1 / SeedMod, until the point lies
\* inside the unit sphere.
RECURSIVE random_in_unit_sphere(_)
random_in_unit_sphere(seed) ==
    LET d1 == next_f32(seed)
        d2 == next_f32(d1.seed)
        d3 == next_f32(d2.seed)
        p == <<2 * d1.value + 1 - SeedMod, 2 * d2.value + 1 - SeedMod,
               2 * d3.value + 1 - SeedMod>>
    IN  IF length_squared(p) < SeedMod * SeedMod THEN [value |-> p, seed |-> d3.seed]
        ELSE random_in_unit_sphere(d3.seed)

\* unit() of a point of the sphere, brought to the nearest axis direction.
AxisUnit(p) ==
    IF Abs(p[1]) >= Abs(p[2]) /\ Abs(p[1]) >= Abs(p[3]) THEN <<Sign(p[1]), 0, 0>>
    ELSE IF Abs(p[2]) >= Abs(p[3]) THEN <<0, Sign(p[2]), 0>>
    ELSE <<0, 0, Sign(p[3])>>

random_unit(seed) ==
    LET r == random_in_unit_sphere(seed)
    IN  [value |-> AxisUnit(r.value), seed |-> r.seed]

(***************************************************************************)
(* material.rs: scatter.  The result is None, Some of the scattered ray    *)
(* and the attenuation, or the panic of unimplemented!(); seed is the seed *)
(* after the call.  A refraction index is a whole number.                  *)
(***************************************************************************)
ScatterSome(ray, attenuation, seed) ==
    [kind |-> "Some", ray |-> ray, attenuation |-> attenuation, seed |-> seed]
ScatterNone(seed) == [kind |-> "None", seed |-> seed]

\* reflectance(cos, rr) > x for a whole cos <= 1, rr = index or 1 / index and
\* x = value / SeedMod: r0 = ((index - 1) / (index + 1))^2 either way, and the
\* result is r0 at cos = 1 and at least 1 at cos <= 0.
ReflectanceExceeds(cos, index, value) ==
    IF cos <= 0 THEN TRUE
    ELSE SeedMod * (index - 1) * (index - 1) > value * (index + 1) * (index + 1)

\* vec3.rs refract, etai_over_etat = 1 / index on a front face, index otherwise.
refract(uv, n, front_face, index) ==
    LET c == dot(VNeg(uv), n)
        cos_theta == IF c < 1 THEN c ELSE 1
        along == VAdd(uv, VScale(cos_theta, n))
        r_out_perp == IF front_face THEN VDiv(along, index) ELSE VScale(index, along)
        r_out_parallel == VScale(-Isqrt(Abs(1 - length_squared(r_out_perp))), n)
    IN  VAdd(r_out_perp, r_out_parallel)

scatter(material, seed, ray_in, rec) ==
    CASE material.kind = "Lambertian" ->
            LET r == random_unit(seed)
                dir == VAdd(rec.normal, r.value)
                scatter_dir == IF near_zero(dir) THEN rec.normal ELSE dir
            IN  ScatterSome(Ray_new(rec.point, scatter_dir, ray_in.time),
                            Texture_value(material.texture), r.seed)
      [] material.kind = "Metal" ->
            LET fuzz_radius == IF material.param < 1 THEN material.param ELSE 1
                reflected == reflect(unit(ray_in.direction), rec.normal)
                r == random_unit(seed)
                scattered == Ray_new(rec.point, VAdd(reflected, VScale(fuzz_radius, r.value)),
                                     ray_in.time)
            IN  IF dot(scattered.direction, rec.normal) > 0
                THEN ScatterSome(scattered, Texture_value(material.texture), r.seed)
                ELSE ScatterNone(r.seed)
      [] material.kind = "Dielectric" ->
            LET unit_dir == unit(ray_in.direction)
                c == dot(VNeg(unit_dir), rec.normal)
                cos_theta == IF c < 1 THEN c ELSE 1
                \* refraction_ratio * sin_theta > 1: sin_theta is 1 at cos_theta = 0,
                \* 0 at 1 and -1, and NaN below -1
                cannot_refract == cos_theta = 0 /\ ~rec.front_face /\ material.param > 1
                d == next_f32(seed)
                reflects == cannot_refract
                            \/ ReflectanceExceeds(cos_theta, material.param, d.value)
                direction == IF reflects THEN reflect(unit_dir, rec.normal)
                             ELSE refract(unit_dir, rec.normal, rec.front_face,
                                          material.param)
            IN  ScatterSome(Ray_new(rec.point, direction, ray_in.time),
                            Texture_value(material.texture),
                            IF cannot_refract THEN seed ELSE d.seed)
      [] material.kind = "Isotropic" ->
            LET r == random_unit(seed)
            IN  ScatterSome(Ray_new(rec.point, r.value, ray_in.time),
                            Texture_value(material.texture), r.seed)
      [] material.kind = "DiffuseLight" -> ScatterNone(seed)
      [] material.kind = "NotFound" -> Panic

(***************************************************************************)
(* camera.rs: RaytracingCamera::ray_colour.  s holds its locals: seed,     *)
(* active_frame, rec, the caller's hittable_stack, the count of scene       *)
(* traversals made so far and whether the last of them hit.                *)
(***************************************************************************)
Frame(ray, depth, multiplier) == [ray |-> ray, depth |-> depth, multiplier |-> multiplier]

Returned(s, value) == [s EXCEPT !.pc = "returned", !.result = value]

Traversed(s, h) ==
    [s EXCEPT !.seed = h.seed, !.rec = h.rec, !.hittable_stack = h.stack,
              !.traversals = s.traversals + 1, !.hit = h.hit_anything]

\* A variant that looks at the depth only after traversing the scene.
ray_colour_iteration_DepthLast(background_colour, world, s) ==
    Then(hit_anything(s.active_frame.ray, s.seed, s.rec, world, s.hittable_stack),
         LAMBDA h : Returned(Traversed(s, h),
                             IF s.active_frame.depth = 0 \/ h.hit_anything THEN ZERO
                             ELSE VMul(s.active_frame.multiplier, background_colour)))

\* The end of a turn of the loop, from the outcome sc of scatter.
Scattered(s, colour_from_emission, sc) ==
    LET f == s.active_frame
    IN  IF sc.kind = "Panic" THEN [s EXCEPT !.pc = "panicked"]
        ELSE IF sc.kind = "None"
             THEN Returned([s EXCEPT !.seed = sc.seed],
                           VMul(f.multiplier, colour_from_emission))
        ELSE [s EXCEPT !.seed = sc.seed,
                       !.active_frame =
                           Frame(sc.ray, f.depth - 1,
                                 VAdd(VMul(f.multiplier, sc.attenuation),
                                      colour_from_emission))]

\* One turn of the loop.
ray_colour_iteration(background_colour, world, s) ==
    IF s.active_frame.depth = 0 THEN Returned(s, ZERO)
    ELSE Then(hit_anything(s.active_frame.ray, s.seed, s.rec, world, s.hittable_stack),
              LAMBDA h :
                IF ~h.hit_anything
                THEN Returned(Traversed(s, h),
                              VMul(s.active_frame.multiplier, background_colour))
                ELSE Then(scatter(h.rec.material, h.seed, s.active_frame.ray, h.rec),
                          LAMBDA sc : Scattered(Traversed(s, h),
                                                emitted(h.rec.material), sc)))

\* The locals at the top of the loop; the debug assertion wants an empty stack.
ray_colour_enter(max_depth, seed, ray, hittable_stack) ==
    [pc |-> IF hittable_stack = <<>> THEN "loop" ELSE "panicked",
     seed |-> seed, active_frame |-> Frame(ray, max_depth, ONE),
     rec |-> HitRecord_default, hittable_stack |-> hittable_stack,
     traversals |-> 0, hit |-> FALSE, result |-> ZERO]

RECURSIVE RunColour(_, _, _)
RunColour(background_colour, world, s) ==
    IF s.pc # "loop" THEN s
    ELSE Then(ray_colour_iteration(background_colour, world, s),
              LAMBDA v : RunColour(background_colour, world, v))

ray_colour(rt_cam, seed, ray, world, hittable_stack) ==
    RunColour(rt_cam.background_colour, world,
              ray_colour_enter(rt_cam.max_depth, seed, ray, hittable_stack))

(***************************************************************************)
(* SpecColour: one call of ray_colour, one turn of its loop per step, on   *)
(* a room of two facing quads of any two materials.                        *)
(***************************************************************************)
MaxDepth == 2

Materials ==
    { lambertian(Texture_colour(<<2, 1, 1>>)), metal(Texture_colour(<<1, 2, 1>>), 0),
      metal(Texture_colour(<<1, 2, 1>>), 1), dielectric(Texture_colour(<<1, 1, 2>>), 2),
      diffuse_light(Texture_colour(<<3, 3, 1>>)), isotropic(Texture_colour(<<2, 2, 1>>)),
      Material_default, lambertian(Texture_NotFound), diffuse_light(Texture_NotFound) }

Room(front, back) ==
    << Quad_new(<<-2, -2, 3>>, <<4, 0, 0>>, <<0, 4, 0>>, front),
       Quad_new(<<-2, -2, -3>>, <<4, 0, 0>>, <<0, 4, 0>>, back) >>

ColourWorlds ==
    {Hittable_list(Room(front, back)) : front \in Materials, back \in Materials}
    \cup {bvh(Room(front, back)) : front \in Materials, back \in Materials}

ColourRays ==
    {Ray_new(ZERO, d, 0) : d \in {<<0, 0, 1>>, <<0, 0, -1>>, <<1, 0, 0>>}}

\* The seeds render gives its rows.
RowSeed(y, n_samples, acc_len) == Seed_new(<<y, n_samples, acc_len, y>>)
ColourSeeds == {RowSeed(y, 1, Width * Height) : y \in 0..(Height - 1)}

InitColour ==
    /\ \E world \in ColourWorlds, ray \in ColourRays, seed \in ColourSeeds,
          max_depth \in 0..MaxDepth :
          tracer = [pc |-> "call", world |-> world, ray |-> ray, seed0 |-> seed,
                    max_depth |-> max_depth,
                    s |-> ray_colour_enter(max_depth, seed, ray, <<>>)]
    /\ trav = Idle /\ build = Idle /\ render = Idle /\ camera = Idle /\ log = Idle

RayColourEnter ==
    /\ tracer.pc = "call"
    /\ tracer' = [tracer EXCEPT !.pc = tracer.s.pc]
    /\ UNCHANGED <<trav, build, render, camera, log>>

RayColourIteration ==
    /\ tracer.pc = "loop"
    /\ tracer' = Then(ray_colour_iteration(Background, tracer.world, tracer.s),
                      LAMBDA s : [tracer EXCEPT !.pc = s.pc, !.s = s])
    /\ UNCHANGED <<trav, build, render, camera, log>>

NextColour == RayColourEnter \/ RayColourIteration

SpecColour == InitColour /\ [][NextColour]_vars

\* The recursive definition of the colour of a ray: Colour of a colour, or Panic
\* where scatter panics.
RECURSIVE colour_rec(_, _, _, _, _)
colour_rec(background_colour, world, ray, d, seed) ==
    LET h == hit_anything(ray, seed, HitRecord_default, world, <<>>)
        material == h.rec.material
        sc == scatter(material, h.seed, ray, h.rec)
        sub == colour_rec(background_colour, world, sc.ray, d - 1, sc.seed)
    IN  IF d = 0 THEN [kind |-> "Colour", colour |-> ZERO]
        ELSE IF ~h.hit_anything THEN [kind |-> "Colour", colour |-> background_colour]
        ELSE IF sc.kind = "Panic" THEN Panic
        ELSE IF sc.kind = "None" THEN [kind |-> "Colour", colour |-> emitted(material)]
        ELSE IF sub.kind = "Panic" THEN Panic
        ELSE [kind |-> "Colour",
              colour |-> VAdd(emitted(material), VMul(sc.attenuation, sub.colour))]

\* C7: what ray_colour returns is the colour of the recursive definition, and it
\* panics exactly where that definition does.
C7_IterativeIsRecursive ==
    tracer.pc \in {"returned", "panicked"} =>
        LET ref == colour_rec(Background, tracer.world, tracer.ray, tracer.max_depth,
                              tracer.seed0)
        IN  IF tracer.pc = "panicked" THEN ref.kind = "Panic"
            ELSE ref.kind = "Colour" /\ ref.colour = tracer.s.result

C7_Witness ==
    /\ tracer.pc = "returned"
    /\ tracer.max_depth = 2
    /\ tracer.s.active_frame.depth = 1
    /\ tracer.s.traversals = 2
    /\ tracer.s.result \notin {ZERO, Background}

\* C8: with max_depth = 0 ray_colour returns black, having made no traversal of
\* the scene and drawn no value from the seed.
C8_DepthZeroBlack ==
    (tracer.pc \in {"returned", "panicked"} /\ tracer.max_depth = 0) =>
        /\ tracer.pc = "returned"
        /\ tracer.s.result = ZERO
        /\ tracer.s.traversals = 0
        /\ tracer.s.seed = tracer.seed0
        /\ tracer.s.hittable_stack = <<>>

C8_Witness ==
    /\ tracer.pc = "returned" /\ tracer.max_depth = 0
    /\ tracer.world.kind = "BVH"
    /\ tracer.ray.direction = <<0, 0, 1>>

\* The material of the last hit is a placeholder, or its texture is one and
\* emitted or scatter took the value of it.
PlaceholderReached(s) ==
    /\ s.hit
    /\ \/ s.rec.material.kind = "NotFound"
       \/ /\ s.rec.material.texture.kind = "NotFound"
          /\ s.rec.material.kind \in {"Lambertian", "Isotropic", "DiffuseLight"}

\* C12: a call of ray_colour whose ray hit a primitive of the placeholder material,
\* or of a material whose texture is the placeholder texture, has panicked.
C12_PlaceholderPanics ==
    (tracer.pc \in {"loop", "returned", "panicked"} /\ PlaceholderReached(tracer.s)) =>
        tracer.pc = "panicked"

(***************************************************************************)
(* camera.rs: get_ray and the row tasks of RaytracingCamera::render.       *)
(* Directions are in units of half a pixel over SeedMod; the viewport is   *)
(* Height pixels away along -w, and defocus_angle is 0.                    *)
(***************************************************************************)
get_ray(rt_cam, seed, x, y) ==
    LET px == next_f32(seed)
        py == next_f32(px.seed)
        ray_time == next_f32(py.seed)
        u == unit(cross(<<0, 1, 0>>, rt_cam.w))
        v == cross(rt_cam.w, u)
        cx == SeedMod * (2 * x + 1 - rt_cam.image_dimensions[1]) + 2 * px.value + 1 - SeedMod
        cy == SeedMod * (2 * y + 1 - rt_cam.image_dimensions[2]) + 2 * py.value + 1 - SeedMod
        ray_direction ==
            VAdd(VScale(-2 * SeedMod * rt_cam.image_dimensions[2], rt_cam.w),
                 VAdd(VScale(cx, u), VScale(-cy, v)))
    IN  [ray |-> Ray_new(rt_cam.centre, ray_direction,
                         (ray_time.value * TScale) \div SeedMod),
         seed |-> ray_time.seed]

\* A variant in which the rows overlap.
RowOffset_Overlap(y, width) == y * (width - 1)

\* The offset of row y into the accumulation buffer.
RowOffset(y, width) == y * width

Started(r) == Cardinality({y \in DOMAIN r.tasks : r.tasks[y].pc # "queued"})

\* A variant that seeds a row from the number of rows started before it.
TaskSeed_ByStart(r, y) == RowSeed(Started(r), r.n_samples, Len(r.acc_colours))

\* The seed of the task of row y.
TaskSeed(r, y) == RowSeed(y, r.n_samples, Len(r.acc_colours))

Queued == [pc |-> "queued", x |-> 0, seed |-> Seed_new(<<0, 0, 0, 0>>),
           hittable_stack |-> <<>>, acc_ptr |-> 0, ray |-> Ray_new(ZERO, ZERO, 0),
           colour |-> ZERO]

\* render up to the start of the parallel loop.
render_begin(r) ==
    IF Len(r.acc_colours) # r.rt_cam.image_dimensions[1] * r.rt_cam.image_dimensions[2]
    THEN [r EXCEPT !.pc = "panicked"]
    ELSE [r EXCEPT !.pc = "running",
                   !.tasks = [y \in 0..(r.rt_cam.image_dimensions[2] - 1) |-> Queued]]

Touch(r, y, buf, index, op) ==
    r.touched \cup {[task |-> y, buf |-> buf, index |-> index, op |-> op]}

\* The steps of the task of row y: its prologue, then for each x the ray, its
\* colour, the read and the write of the accumulation element, and the renderer
\* closure of realtime_render.
task_start(r, y) ==
    [r EXCEPT !.tasks[y] =
        [Queued EXCEPT !.pc = "ray", !.seed = TaskSeed(r, y),
                       !.acc_ptr = RowOffset(y, r.rt_cam.image_dimensions[1])]]

task_get_ray(r, y) ==
    LET t == r.tasks[y]
        g == get_ray(r.rt_cam, t.seed, t.x, y)
    IN  [r EXCEPT !.tasks[y] = [t EXCEPT !.pc = "colour", !.ray = g.ray, !.seed = g.seed]]

task_ray_colour(r, y) ==
    LET t == r.tasks[y]
    IN  Then(ray_colour(r.rt_cam, t.seed, t.ray, r.world, t.hittable_stack),
             LAMBDA c : [r EXCEPT !.tasks[y] =
                            [t EXCEPT !.pc = "read", !.colour = c.result, !.seed = c.seed,
                                      !.hittable_stack = c.hittable_stack]])

task_read(r, y) ==
    LET t == r.tasks[y]
    IN  [r EXCEPT !.tasks[y] = [t EXCEPT !.pc = "write",
                                         !.colour = VAdd(r.acc_colours[t.acc_ptr + 1],
                                                         t.colour)],
                  !.touched = Touch(r, y, "acc", t.acc_ptr, "read")]

task_write(r, y) ==
    LET t == r.tasks[y]
    IN  [r EXCEPT !.tasks[y] = [t EXCEPT !.pc = "renderer"],
                  !.acc_colours[t.acc_ptr + 1] = t.colour,
                  !.touched = Touch(r, y, "acc", t.acc_ptr, "write")]

task_renderer(r, y) ==
    LET t == r.tasks[y]
        width == r.rt_cam.image_dimensions[1]
    IN  [r EXCEPT !.tasks[y] = [t EXCEPT !.pc = IF t.x + 1 < width THEN "ray" ELSE "done",
                                         !.x = t.x + 1, !.acc_ptr = t.acc_ptr + 1],
                  !.final_colours[y * width + t.x + 1] =
                      ToneMap(r.exposure, OverSamples(t.colour, r.n_samples)),
                  !.touched = Touch(r, y, "final", y * width + t.x, "write")]

(***************************************************************************)
(* SpecRender: one pass of RaytracingCamera::render from realtime_render,  *)
(* the row tasks running in any interleaving of their steps.  acc0 is the  *)
(* accumulation buffer at the call, started the rows in the order their    *)
(* tasks began, touched the buffer accesses made so far.                   *)
(***************************************************************************)
RenderWorld ==
    Hittable_list(<< Quad_new(<<3, -4, -4>>, <<0, 8, 0>>, <<0, 0, 8>>,
                              lambertian(Texture_colour(<<2, 1, 1>>))),
                     Quad_new(<<-3, -4, -4>>, <<0, 8, 0>>, <<0, 0, 8>>,
                              diffuse_light(Texture_colour(<<3, 3, 1>>))),
                     Quad_new(<<-4, -4, 3>>, <<8, 0, 0>>, <<0, 8, 0>>,
                              metal(Texture_colour(<<1, 2, 1>>), 1)) >>)

RenderBuffers ==
    {[i \in 1..NPix |-> ZERO], [i \in 1..NPix |-> <<i, 1, 0>>], [i \in 1..(NPix + 1) |-> ZERO]}

InitRender ==
    /\ \E acc \in RenderBuffers, n_samples \in 1..MaxSamples :
          render = [pc |-> "call",
                    rt_cam |-> RaytracingCamera_new(Width, Height, MaxDepth, ZERO,
                                                    <<1, 0, 0>>, Background),
                    world |-> RenderWorld, n_samples |-> n_samples, exposure |-> 1,
                    acc0 |-> acc, acc_colours |-> acc,
                    final_colours |-> [i \in 1..NPix |-> Black],
                    tasks |-> <<>>, started |-> <<>>, touched |-> {}]
    /\ trav = Idle /\ build = Idle /\ tracer = Idle /\ camera = Idle /\ log = Idle

RenderBegin ==
    /\ render.pc = "call"
    /\ render' = render_begin(render)
    /\ UNCHANGED <<trav, build, tracer, camera, log>>

TaskAt(y, pc) == render.pc = "running" /\ y \in DOMAIN render.tasks /\ render.tasks[y].pc = pc

TaskStart ==
    /\ \E y \in 0..(Height - 1) :
          /\ TaskAt(y, "queued")
          /\ render' = [task_start(render, y) EXCEPT !.started = Append(render.started, y)]
    /\ UNCHANGED <<trav, build, tracer, camera, log>>

TaskGetRay ==
    /\ \E y \in 0..(Height - 1) : TaskAt(y, "ray") /\ render' = task_get_ray(render, y)
    /\ UNCHANGED <<trav, build, tracer, camera, log>>

TaskRayColour ==
    /\ \E y \in 0..(Height - 1) : TaskAt(y, "colour") /\ render' = task_ray_colour(render, y)
    /\ UNCHANGED <<trav, build, tracer, camera, log>>

TaskRead ==
    /\ \E y \in 0..(Height - 1) : TaskAt(y, "read") /\ render' = task_read(render, y)
    /\ UNCHANGED <<trav, build, tracer, camera, log>>

TaskWrite ==
    /\ \E y \in 0..(Height - 1) : TaskAt(y, "write") /\ render' = task_write(render, y)
    /\ UNCHANGED <<trav, build, tracer, camera, log>>

TaskRenderer ==
    /\ \E y \in 0..(Height - 1) : TaskAt(y, "renderer") /\ render' = task_renderer(render, y)
    /\ UNCHANGED <<trav, build, tracer, camera, log>>

RenderEnd ==
    /\ render.pc = "running"
    /\ \A y \in DOMAIN render.tasks : render.tasks[y].pc = "done"
    /\ render' = [render EXCEPT !.pc = "returned"]
    /\ UNCHANGED <<trav, build, tracer, camera, log>>

NextRender ==
    \/ RenderBegin \/ TaskStart \/ TaskGetRay \/ TaskRayColour \/ TaskRead \/ TaskWrite
    \/ TaskRenderer \/ RenderEnd

SpecRender == InitRender /\ [][NextRender]_vars

(***************************************************************************)
(* SpecSizes: the same pass on buffers of any length near width * height:  *)
(* the accumulation slice handed to render, and the final_colours buffer   *)
(* the renderer closure of realtime_render writes through final_ptr.       *)
(***************************************************************************)
AccBuffers == {[i \in 1..n |-> ZERO] : n \in {NPix - 1, NPix, NPix + 1}}
\* A shorter final buffer would put the closure's writes out of bounds.
FinalBuffers == {[i \in 1..n |-> Black] : n \in {NPix, NPix + 1}}

InitSizes ==
    /\ \E acc \in AccBuffers, final \in FinalBuffers, n_samples \in 1..MaxSamples :
          render = [pc |-> "call",
                    rt_cam |-> RaytracingCamera_new(Width, Height, MaxDepth, ZERO,
                                                    <<1, 0, 0>>, Background),
                    world |-> RenderWorld, n_samples |-> n_samples, exposure |-> 1,
                    acc0 |-> acc, acc_colours |-> acc, final_colours |-> final,
                    tasks |-> <<>>, started |-> <<>>, touched |-> {}]
    /\ trav = Idle /\ build = Idle /\ tracer = Idle /\ camera = Idle /\ log = Idle

SpecSizes == InitSizes /\ [][NextRender]_vars

Writers(buf, index) ==
    {a.task : a \in {b \in render.touched : b.buf = buf /\ b.index = index /\ b.op = "write"}}

\* C23: the work stack of a row task is empty whenever the task is between two
\* calls of ray_colour, so every call of ray_colour, for every pixel of the row,
\* starts with the empty stack its assertion wants and ends, after the last
\* traversal of its bounces, with an empty stack again.
C23_StackEmptyBetweenCalls ==
    render.pc = "running" =>
        \A y \in DOMAIN render.tasks : render.tasks[y].hittable_stack = <<>>

\* A task about to trace a pixel that is not the first of its row, the rays of
\* the pixels before it having been traced.
C23_Witness ==
    /\ render.pc = "running"
    /\ \E y \in DOMAIN render.tasks :
          /\ render.tasks[y].pc = "colour" /\ render.tasks[y].x >= 1
          /\ render.tasks[y].hittable_stack = <<>>

\* C5: the task of row y touches only the elements y * width .. (y + 1) * width - 1
\* of either buffer, so no element is written by two tasks, and when the pass
\* returns every element of both buffers was written by exactly one task.
C5_RowsDisjoint ==
    render.pc \in {"running", "returned"} =>
        /\ \A a \in render.touched :
              a.index \in (a.task * Width)..((a.task + 1) * Width - 1)
        /\ \A buf \in {"acc", "final"}, i \in 0..(NPix - 1) :
              /\ Cardinality(Writers(buf, i)) <= 1
              /\ render.pc = "returned" => Cardinality(Writers(buf, i)) = 1

C5_Witness ==
    /\ render.pc = "running"
    /\ \A y \in DOMAIN render.tasks : render.tasks[y].pc = "write" /\ render.tasks[y].x = 1

\* The colours of the pixels x.. of row y, traced one after the other from seed.
RECURSIVE RowColours(_, _, _, _)
RowColours(r, y, x, seed) ==
    IF x = r.rt_cam.image_dimensions[1] THEN <<>>
    ELSE LET g == get_ray(r.rt_cam, seed, x, y)
             c == ray_colour(r.rt_cam, g.seed, g.ray, r.world, <<>>)
         IN  <<c.result>> \o RowColours(r, y, x + 1, c.seed)

ExpectedAcc(r) ==
    [i \in 1..NPix |->
        LET y == (i - 1) \div Width
            x == (i - 1) % Width
        IN  VAdd(r.acc0[i],
                 RowColours(r, y, 0, RowSeed(y, r.n_samples, Len(r.acc0)))[x + 1])]

\* C6: whatever the interleaving of the row tasks, the pass ends with the buffers
\* that tracing the rows one after the other, each from its own seed of (row,
\* sample count, buffer length) and on its own stack, gives from the same start.
C6_Deterministic ==
    render.pc = "returned" =>
        /\ render.acc_colours = ExpectedAcc(render)
        /\ render.final_colours =
              [i \in 1..NPix |->
                  ToneMap(render.exposure, OverSamples(ExpectedAcc(render)[i], render.n_samples))]

C6_Witness ==
    /\ render.pc = "returned"
    /\ render.started[1] = Height - 1
    /\ render.acc_colours # render.acc0
    /\ \E i \in 1..NPix, j \in 1..NPix : render.acc_colours[i] # render.acc_colours[j]


(***************************************************************************)
(* hittable.rs: Hittable::bvh call by call.  build.calls is the call stack, *)
(* its last element the running call; a call is at "entry", or waits for   *)
(* the node of its first half ("left") or of its second half ("right").    *)
(* build.ret is the node the last finished call handed to its caller, and  *)
(* build.last records that call's input list with the node it returned.    *)
(***************************************************************************)
MaxPrims == 5
\* The calls of Hittable::bvh the thread's stack has room for.
StackFrames == 6

BvhPool ==
    << Sphere_new(<<0, 0, 0>>, 1, Mat(1)),
       Sphere_new(<<4, 0, 0>>, 1, Mat(2)),
       Quad_new(<<-1, 5, 0>>, <<2, 0, 0>>, <<0, 0, 2>>, Mat(3)),
       MovingSphere_new(<<0, 0, 6>>, <<0, 2, 6>>, 1, Mat(4)) >>

\* The non-empty slices of at most MaxPrims primitives, repeats included.
BvhInputs ==
    UNION {{[i \in 1..n |-> BvhPool[ix[i]]] : ix \in [1..n -> 1..Len(BvhPool)]} : n \in 1..MaxPrims}

BvhCall(hittables) ==
    [hittables |-> hittables, pc |-> "entry", aabb |-> AABB_EMPTY, rest |-> <<>>, r1 |-> None]

\* The fold over the slice at the head of Hittable::bvh.
BvhFold(hittables) ==
    FoldAabbs([i \in 1..Len(hittables) |-> calc_aabb(hittables[i])], AABB_EMPTY)

\* The running call returns hittable, or the assertion on it unwinds every call.
BvhReturn(b, hittable) ==
    LET n == Len(b.calls)
    IN  IF hittable = Panic
        THEN [b EXCEPT !.pc = "panicked", !.calls = <<>>, !.ret = None]
        ELSE [b EXCEPT !.pc = IF n = 1 THEN "returned" ELSE "running",
                       !.calls = SubSeq(b.calls, 1, n - 1),
                       !.ret = Some(hittable),
                       !.last = Some([hittables |-> b.calls[n].hittables, node |-> hittable])]

InitBvh ==
    /\ \E hittables \in BvhInputs :
          build = [pc |-> "running", input |-> hittables, calls |-> <<BvhCall(hittables)>>,
                   ret |-> None, last |-> None]
    /\ trav = Idle /\ tracer = Idle /\ render = Idle /\ camera = Idle /\ log = Idle

BvhTop == build.calls[Len(build.calls)]

\* A call on one or two hittables: they become the children of the node.
BvhLeaf ==
    /\ build.pc = "running" /\ BvhTop.pc = "entry"
    /\ Len(BvhTop.hittables) \in {1, 2}
    /\ LET hittables == BvhTop.hittables
           aabb == BvhFold(hittables)
       IN  build' = BvhReturn(build,
                        IF Len(hittables) = 1 THEN BvhNode(hittables[1], None, aabb)
                        ELSE BvhNode(hittables[1], Some(hittables[2]), aabb))
    /\ UNCHANGED <<trav, tracer, render, camera, log>>

\* A call on any other slice sorts a copy, splits it and calls itself on list.0.
BvhSplit ==
    /\ build.pc = "running" /\ BvhTop.pc = "entry"
    /\ Len(BvhTop.hittables) \notin {1, 2}
    /\ Len(build.calls) < StackFrames
    /\ LET n == Len(build.calls)
           aabb == BvhFold(BvhTop.hittables)
           list == sort_by(BvhTop.hittables, longest_axis(aabb))
           middle == Middle(Len(list))
       IN  build' = [build EXCEPT
                        !.calls = [build.calls EXCEPT
                                      ![n] = [@ EXCEPT !.pc = "left", !.aabb = aabb,
                                                       !.rest = SubSeq(list, middle + 1, Len(list))]]
                                  \o <<BvhCall(SubSeq(list, 1, middle))>>]
    /\ UNCHANGED <<trav, tracer, render, camera, log>>

\* r1 is back: the call on list.1.
BvhLeft ==
    /\ build.pc = "running" /\ BvhTop.pc = "left" /\ build.ret # None
    /\ LET n == Len(build.calls)
       IN  build' = [build EXCEPT
                        !.calls = [build.calls EXCEPT
                                      ![n] = [@ EXCEPT !.pc = "right", !.r1 = build.ret[1]]]
                                  \o <<BvhCall(BvhTop.rest)>>,
                        !.ret = None]
    /\ UNCHANGED <<trav, tracer, render, camera, log>>

\* r2 is back: the node over r1 and r2, and the assertion on it.
BvhRight ==
    /\ build.pc = "running" /\ BvhTop.pc = "right" /\ build.ret # None
    /\ build' = BvhReturn(build, BvhNode(BvhTop.r1, build.ret, BvhTop.aabb))
    /\ UNCHANGED <<trav, tracer, render, camera, log>>

NextBvh == BvhLeaf \/ BvhSplit \/ BvhLeft \/ BvhRight

SpecBvh == InitBvh /\ [][NextBvh]_vars

(***************************************************************************)
(* SpecCompare: the closure Hittable::bvh hands to sort_by, called on the  *)
(* pairs of three hittables.                                               *)
(***************************************************************************)
\* |a, b| if box_comp(a, b, axis) { Ordering::Less } else { Ordering::Greater }
compare(a, b, axis) == IF box_comp(a, b, axis) THEN "Less" ELSE "Greater"

\* Ordering::reverse
Ordering_reverse(o) ==
    CASE o = "Less" -> "Greater" [] o = "Greater" -> "Less" [] OTHER -> "Equal"

InitCompare ==
    /\ \E i, j, k \in DOMAIN BvhPool, axis \in 0..2 :
          build = [pc |-> "call", a |-> BvhPool[i], b |-> BvhPool[j], c |-> BvhPool[k],
                   axis |-> axis]
    /\ trav = Idle /\ tracer = Idle /\ render = Idle /\ camera = Idle /\ log = Idle

Call_compare ==
    /\ build.pc = "call"
    /\ build' = [pc |-> "compared", a |-> build.a, b |-> build.b, c |-> build.c,
                 axis |-> build.axis,
                 ab |-> compare(build.a, build.b, build.axis),
                 ba |-> compare(build.b, build.a, build.axis),
                 bc |-> compare(build.b, build.c, build.axis),
                 ac |-> compare(build.a, build.c, build.axis)]
    /\ UNCHANGED <<trav, tracer, render, camera, log>>

SpecCompare == InitCompare /\ [][Call_compare]_vars

\* C30: the closure's result for (a, b) is the reverse of its result for (b, a),
\* and Less for (a, b) and for (b, c) gives Less for (a, c).
C30_ConsistentOrdering ==
    build.pc = "compared" =>
        /\ build.ab = Ordering_reverse(build.ba)
        /\ (build.ab = "Less" /\ build.bc = "Less") => build.ac = "Less"

(***************************************************************************)
(* SpecBuild: Hittable::bvh on every slice, the empty one included.  A     *)
(* call that has to call itself with no room left on the stack ends the    *)
(* process.                                                                *)
(***************************************************************************)
InitBuild ==
    /\ \E hittables \in BvhInputs \cup {<<>>} :
          build = [pc |-> "running", input |-> hittables, calls |-> <<BvhCall(hittables)>>,
                   ret |-> None, last |-> None]
    /\ trav = Idle /\ tracer = Idle /\ render = Idle /\ camera = Idle /\ log = Idle

BvhOverflow ==
    /\ build.pc = "running" /\ BvhTop.pc = "entry"
    /\ Len(BvhTop.hittables) \notin {1, 2}
    /\ Len(build.calls) = StackFrames
    /\ build' = [build EXCEPT !.pc = "overflow"]
    /\ UNCHANGED <<trav, tracer, render, camera, log>>

NextBuild == BvhLeaf \/ BvhSplit \/ BvhLeft \/ BvhRight \/ BvhOverflow

SpecBuild == InitBuild /\ [][NextBuild]_vars

\* C26: Hittable::bvh returns for every slice: no chain of nested calls uses up
\* the stack, however many frames the stack has room for.
C26_BvhReturns == build.pc # "overflow"


\* The primitives under a node, left to right.
RECURSIVE Leaves(_)
Leaves(h) ==
    IF h.kind # "BVH" THEN <<h>>
    ELSE Leaves(h.left) \o (IF h.right = None THEN <<>> ELSE Leaves(h.right[1]))

Lo(S) == CHOOSE m \in S : \A v \in S : m <= v
Hi(S) == CHOOSE m \in S : \A v \in S : m >= v

\* The smallest box around the boxes of all the hittables of a list.
Hull(hittables) ==
    [mins |-> [k \in 1..3 |-> Lo({calc_aabb(hittables[i]).mins[k] : i \in DOMAIN hittables})],
     maxs |-> [k \in 1..3 |-> Hi({calc_aabb(hittables[i]).maxs[k] : i \in DOMAIN hittables})]]

Inside(box, outer) ==
    \A k \in 1..3 : outer.mins[k] <= box.mins[k] /\ box.maxs[k] <= outer.maxs[k]

Occurrences(list, h) == Cardinality({i \in DOMAIN list : list[i] = h})

\* C9: no call of Hittable::bvh fails its assertion, and the box of the node that
\* a call returns is the union of the boxes of its children, is the smallest box
\* around the boxes of all primitives of the call's input list, and contains the
\* box of every primitive under the node; the root is the node of the last return.
C9_NodeBoxIsUnion ==
    /\ build.pc # "panicked"
    /\ build.last # None =>
          LET node == build.last[1].node
              hittables == build.last[1].hittables
              children == <<node.left>> \o node.right
          IN  /\ node.kind = "BVH"
              /\ calc_aabb(node) = Hull(children)
              /\ calc_aabb(node) = Hull(hittables)
              /\ \A i \in DOMAIN Leaves(node) :
                    Inside(calc_aabb(Leaves(node)[i]), calc_aabb(node))
    /\ build.pc = "returned" =>
          /\ build.last[1].hittables = build.input
          /\ build.last[1].node = bvh(build.input)

\* The root of four distinct primitives is back, over two nodes whose boxes are
\* both smaller than its own.
C9_Witness ==
    /\ build.pc = "returned"
    /\ Len(build.input) = 4
    /\ \A i, j \in 1..4 : i # j => build.input[i] # build.input[j]
    /\ LET node == build.last[1].node
       IN  /\ node.left.kind = "BVH" /\ node.right[1].kind = "BVH"
           /\ calc_aabb(node.left) # calc_aabb(node)
           /\ calc_aabb(node.right[1]) # calc_aabb(node)

\* C10: the primitives under the node a call of Hittable::bvh returns are the
\* primitives of its input list, each as often as the list holds it; a list of
\* one gives a node with it as the only child, a list of two a node with the two
\* as children in order, and a longer list of n a node over two nodes, the left
\* over n / 2 primitives rounded down and the right over the others, no primitive
\* on the right having a smaller box minimum on the longest axis of the list's
\* box than one on the left.
C10_LeavesAreInputs ==
    build.last # None =>
        LET node == build.last[1].node
            hittables == build.last[1].hittables
            n == Len(hittables)
            axis == longest_axis(Hull(hittables))
            key(h) == calc_aabb(h).mins[axis + 1]
        IN  /\ node.kind = "BVH"
            /\ Len(Leaves(node)) = n
            /\ \A i \in 1..n :
                  Occurrences(Leaves(node), hittables[i]) = Occurrences(hittables, hittables[i])
            /\ n = 1 => node.left = hittables[1] /\ node.right = None
            /\ n = 2 => node.left = hittables[1] /\ node.right = Some(hittables[2])
            /\ n >= 3 =>
                  /\ node.left.kind = "BVH" /\ node.right # None /\ node.right[1].kind = "BVH"
                  /\ Len(Leaves(node.left)) = n \div 2
                  /\ Len(Leaves(node.right[1])) = (n + 1) \div 2
                  /\ \A i \in DOMAIN Leaves(node.left), j \in DOMAIN Leaves(node.right[1]) :
                        key(Leaves(node.left)[i]) <= key(Leaves(node.right[1])[j])

\* The root of at least three primitives is back, and the sort moved the first
\* primitive of the input to the right half.
C10_Witness ==
    /\ build.pc = "returned"
    /\ Len(build.input) >= 3
    /\ \E i \in DOMAIN Leaves(build.last[1].node.right[1]) :
          Leaves(build.last[1].node.right[1])[i] = build.input[1]
    /\ Occurrences(build.input, build.input[1]) = 1


(***************************************************************************)
(* math/vec3.rs: Colour::to_rgba, and the consumers of final_colours in    *)
(* main.rs.  A u32 is the tuple of its four bytes, lowest first.  A colour *)
(* component is (k / PixelLevels)^2 for a whole k, kept as k * k, so that  *)
(* its square root is exact.                                               *)
(***************************************************************************)
PixelLevels == 4

U32(lane) == <<lane % 256, (lane \div 256) % 256, (lane \div 65536) % 256, 0>>

\* word << (8 * n), the bytes shifted out at the top dropped.
Shl8(word, n) == [k \in 1..4 |-> IF k <= n THEN 0 ELSE word[k - n]]

RECURSIVE BitOr(_, _)
BitOr(a, b) ==
    IF a = 0 THEN b ELSE IF b = 0 THEN a
    ELSE (IF a % 2 = 1 \/ b % 2 = 1 THEN 1 ELSE 0) + 2 * BitOr(a \div 2, b \div 2)

WordOr(a, b) == [k \in 1..4 |-> BitOr(a[k], b[k])]

\* word + n for n < 256, wrapping at 2^32.
RECURSIVE Carry(_, _, _)
Carry(word, n, k) ==
    IF k > 4 THEN word
    ELSE Carry([word EXCEPT ![k] = (word[k] + n) % 256], (word[k] + n) \div 256, k + 1)
WordAdd(word, n) == Carry(word, n, 1)

to_be_bytes(word) == <<word[4], word[3], word[2], word[1]>>
\* The bytes of a u32 in memory on a little-endian target.
to_ne_bytes(word) == word

\* sqrt, * 255.999 and the cast to u32 of one lane.
Lane(kk) == (Isqrt(kk) * 255999) \div (1000 * PixelLevels)

to_rgba(colour) ==
    WordOr(WordOr(Shl8(U32(Lane(colour[1])), 0), Shl8(U32(Lane(colour[2])), 1)),
           Shl8(U32(Lane(colour[3])), 2))

\* main.rs:165: the RgbaImage pixel of a buffer word.
export_pixel(word) == to_be_bytes(WordAdd(Shl8(word, 1), 255))

\* main.rs:188-190, 255: the texel SDL reads from the words as RGBA32.
upload_texel(word) == to_ne_bytes(word)

(***************************************************************************)
(* SpecPixel: one colour written to final_colours by realtime_render, then *)
(* shown through the texture and exported to the image, in either order.   *)
(***************************************************************************)
PixelColours == {<<r * r, g * g, b * b>> : r \in 0..PixelLevels, g \in 0..PixelLevels,
                                           b \in 0..PixelLevels}

InitPixel ==
    /\ \E colour \in PixelColours :
          render = [pc |-> "mapped", colour |-> colour, word |-> U32(0),
                    texel |-> <<>>, pixel |-> <<>>]
    /\ trav = Idle /\ build = Idle /\ tracer = Idle /\ camera = Idle /\ log = Idle

PixelWrite ==
    /\ render.pc = "mapped"
    /\ render' = [render EXCEPT !.pc = "written", !.word = to_rgba(render.colour)]
    /\ UNCHANGED <<trav, build, tracer, camera, log>>

PixelUpload ==
    /\ render.pc = "written" /\ render.texel = <<>>
    /\ render' = [render EXCEPT !.texel = upload_texel(render.word)]
    /\ UNCHANGED <<trav, build, tracer, camera, log>>

PixelExport ==
    /\ render.pc = "written" /\ render.pixel = <<>>
    /\ render' = [render EXCEPT !.pixel = export_pixel(render.word)]
    /\ UNCHANGED <<trav, build, tracer, camera, log>>

NextPixel == PixelWrite \/ PixelUpload \/ PixelExport

SpecPixel == InitPixel /\ [][NextPixel]_vars

\* The red, green and blue values of a colour, 0..255.
Channels(colour) == <<Lane(colour[1]), Lane(colour[2]), Lane(colour[3])>>

\* C14: the word written for a colour is 0RGB (red in bits 16..23, green in bits
\* 8..15, blue in bits 0..7), the texel the texture reads from it and the pixel
\* the export makes of it have the colour's red, green and blue values in their
\* red, green and blue channels.
C14_ChannelsAgree ==
    render.pc = "written" =>
        LET c == Channels(render.colour)
        IN  /\ render.word = <<c[3], c[2], c[1], 0>>
            /\ render.texel # <<>> => SubSeq(render.texel, 1, 3) = c
            /\ render.pixel # <<>> => SubSeq(render.pixel, 1, 3) = c


(***************************************************************************)
(* math/matrix.rs: Matrix<ROW, COLUMN, T> is the sequence of its ROW rows, *)
(* each a sequence of COLUMN entries.                                      *)
(***************************************************************************)
Matrix_new(rows) == [kind |-> "Matrix", rows |-> rows]

\* The loop over k of one entry: res is None before the first product.
RECURSIVE MulEntry(_, _, _, _, _, _)
MulEntry(self, rhs, i, j, k, res) ==
    IF k > Len(rhs.rows) THEN res[1]
    ELSE LET r == self.rows[i][k] * rhs.rows[k][j]
         IN  MulEntry(self, rhs, i, j, k + 1, IF res = None THEN Some(r) ELSE Some(res[1] + r))

\* impl Mul: the outer from_fn builds COLUMN rows and reads self.rows[i] for
\* each of them, which is out of bounds past the ROW rows of self.
Matrix_mul(self, rhs) ==
    LET ROW == Len(self.rows)
        COLUMN == Len(rhs.rows)
        COLUMN_TWO == Len(rhs.rows[1])
    IN  IF \E i \in 1..COLUMN : i > ROW THEN Panic
        ELSE Matrix_new([i \in 1..COLUMN |->
                            [j \in 1..COLUMN_TWO |-> MulEntry(self, rhs, i, j, 1, None)]])

(***************************************************************************)
(* SpecMatrix: one product a * b of matrices of every shape up to MaxDim   *)
(* with entries in 0..MaxEntry; build holds the call.                      *)
(***************************************************************************)
MaxDim == 2
MaxEntry == 2

Matrices(rows, columns) == {Matrix_new(m) : m \in [1..rows -> [1..columns -> 0..MaxEntry]]}

InitMatrix ==
    /\ \E ROW \in 1..MaxDim, COLUMN \in 1..MaxDim, COLUMN_TWO \in 1..MaxDim :
          \E a \in Matrices(ROW, COLUMN), b \in Matrices(COLUMN, COLUMN_TWO) :
             build = [pc |-> "call", self |-> a, rhs |-> b, result |-> Idle]
    /\ trav = Idle /\ tracer = Idle /\ render = Idle /\ camera = Idle /\ log = Idle

MatrixMul ==
    /\ build.pc = "call"
    /\ LET r == Matrix_mul(build.self, build.rhs)
       IN  build' = [build EXCEPT !.pc = IF r = Panic THEN "panicked" ELSE "returned",
                                  !.result = r]
    /\ UNCHANGED <<trav, tracer, render, camera, log>>

NextMatrix == MatrixMul

SpecMatrix == InitMatrix /\ [][NextMatrix]_vars

\* The sum over k >= from of a[i][k] * b[k][j].
RECURSIVE SumOfProducts(_, _, _, _, _)
SumOfProducts(a, b, i, j, from) ==
    IF from > Len(b.rows) THEN 0
    ELSE a.rows[i][from] * b.rows[from][j] + SumOfProducts(a, b, i, j, from + 1)

\* C15: the product of a ROW x COLUMN matrix a and a COLUMN x COLUMN_TWO matrix b
\* is returned, has ROW rows of COLUMN_TWO entries, and its entry (i, j) is the
\* sum over k of a[i][k] * b[k][j], whatever the shape.
C15_ProductOfAnyShape ==
    build.pc # "call" =>
        /\ build.pc = "returned"
        /\ build.result.kind = "Matrix"
        /\ Len(build.result.rows) = Len(build.self.rows)
        /\ \A i \in 1..Len(build.self.rows) :
              /\ Len(build.result.rows[i]) = Len(build.rhs.rows[1])
              /\ \A j \in 1..Len(build.rhs.rows[1]) :
                    build.result.rows[i][j] = SumOfProducts(build.self, build.rhs, i, j, 1)


(***************************************************************************)
(* SpecBoxes: one call of an AABB constructor, of Hittable::calc_aabb or   *)
(* of AABB::longest_axis; build holds the call.  Points have coordinates in 0..MaxCoord, the      *)
(* hittables are the items of the traversal and the builder's primitives.  *)
(* AABB::pad_to_minimums has no caller, so no call of it is part of any of *)
(* them.                                                                   *)
(***************************************************************************)
MaxCoord == 1
\* 1 / delta of AABB::pad_to_minimums: the least extent is 1 / MinExtentInv.
MinExtentInv == 10000

BoxPoints == {<<x, y, z>> : x \in 0..MaxCoord, y \in 0..MaxCoord, z \in 0..MaxCoord}
BoxIntervals == {Interval_new(min, max) : min \in 0..MaxCoord, max \in 0..MaxCoord}
PointBoxes == {from_points(a, b) : a \in BoxPoints, b \in BoxPoints}
BoxHittables == {Item(i) : i \in 1..NItems} \cup {BvhPool[i] : i \in DOMAIN BvhPool}

BoxCall(op, args) == [pc |-> "call", op |-> op, args |-> args, result |-> Idle]

InitBoxes ==
    /\ \/ \E x \in BoxIntervals, y \in BoxIntervals, z \in BoxIntervals :
             build = BoxCall("new", <<x, y, z>>)
       \/ \E a \in BoxPoints, b \in BoxPoints : build = BoxCall("from_points", <<a, b>>)
       \/ \E box1 \in PointBoxes, box2 \in PointBoxes : build = BoxCall("from_aabbs", <<box1, box2>>)
       \/ \E h \in BoxHittables : build = BoxCall("calc_aabb", <<h>>)
       \/ \E box \in PointBoxes : build = BoxCall("longest_axis", <<box>>)
    /\ trav = Idle /\ tracer = Idle /\ render = Idle /\ camera = Idle /\ log = Idle

Call_AABB_new ==
    /\ build.pc = "call" /\ build.op = "new"
    /\ build' = [build EXCEPT !.pc = "returned", !.result = AABB_new(build.args[1], build.args[2], build.args[3])]
    /\ UNCHANGED <<trav, tracer, render, camera, log>>

Call_from_points ==
    /\ build.pc = "call" /\ build.op = "from_points"
    /\ build' = [build EXCEPT !.pc = "returned", !.result = from_points(build.args[1], build.args[2])]
    /\ UNCHANGED <<trav, tracer, render, camera, log>>

Call_from_aabbs ==
    /\ build.pc = "call" /\ build.op = "from_aabbs"
    /\ build' = [build EXCEPT !.pc = "returned", !.result = from_aabbs(build.args[1], build.args[2])]
    /\ UNCHANGED <<trav, tracer, render, camera, log>>

Call_calc_aabb ==
    /\ build.pc = "call" /\ build.op = "calc_aabb"
    /\ build' = [build EXCEPT !.pc = "returned", !.result = calc_aabb(build.args[1])]
    /\ UNCHANGED <<trav, tracer, render, camera, log>>

Call_longest_axis ==
    /\ build.pc = "call" /\ build.op = "longest_axis"
    /\ build' = [build EXCEPT !.pc = "returned", !.result = longest_axis(build.args[1])]
    /\ UNCHANGED <<trav, tracer, render, camera, log>>

NextBoxes ==
    \/ Call_AABB_new \/ Call_from_points \/ Call_from_aabbs \/ Call_calc_aabb
    \/ Call_longest_axis

SpecBoxes == InitBoxes /\ [][NextBoxes]_vars

HasMinimumExtent(box) ==
    \A axis \in 0..2 :
        LET extent == size(axis_interval(box, axis))
        IN  IsInf(extent) \/ extent * MinExtentInv >= 1

\* C16: the box returned by AABB::new, AABB::from_points, AABB::from_aabbs or
\* Hittable::calc_aabb has an extent of at least 1e-4 on each of its three axes.
C16_MinimumExtent ==
    (build.pc = "returned" /\ build.op # "longest_axis") => HasMinimumExtent(build.result)

Extent(box, axis) == size(axis_interval(box, axis))
LongestAxisReturned == build.pc = "returned" /\ build.op = "longest_axis"

\* C18 as stated: longest_axis returns an axis of maximal extent, and of the
\* axes of maximal extent the earliest one.
C18_LongestAxisEarliest ==
    LongestAxisReturned =>
        /\ \A axis \in 0..2 : Extent(build.args[1], axis) <= Extent(build.args[1], build.result)
        /\ \A axis \in 0..2 :
              axis < build.result => Extent(build.args[1], axis) < Extent(build.args[1], build.result)

\* C18 amended: longest_axis returns an axis of maximal extent, and of the axes
\* of maximal extent the latest one (z before y before x).
C18_LongestAxisLatest ==
    LongestAxisReturned =>
        /\ \A axis \in 0..2 : Extent(build.args[1], axis) <= Extent(build.args[1], build.result)
        /\ \A axis \in 0..2 :
              axis > build.result => Extent(build.args[1], axis) < Extent(build.args[1], build.result)

\* A box whose x and y extents are equal and exceed the z extent: axis 1.
C18_Witness ==
    /\ LongestAxisReturned
    /\ Extent(build.args[1], 0) = Extent(build.args[1], 1)
    /\ Extent(build.args[1], 2) < Extent(build.args[1], 1)
    /\ build.result = 1


(***************************************************************************)
(* SpecSlab: one call of AABBx2::hit on a pair of boxes with corners in    *)
(* 0..MaxCoord, as the BVH arm of hit_anything makes it; trav holds the    *)
(* call.                                                                   *)
(***************************************************************************)
SlabRanges == {Interval_new(TMin0, PInf), Interval_new(TMin0, TScale)}

InitSlab ==
    /\ \E box1 \in PointBoxes, box2 \in PointBoxes, ray \in Rays, ray_t \in SlabRanges :
          trav = [pc |-> "call", aabbs |-> AABBx2_new(box1, box2), ray |-> ray,
                  ray_t |-> ray_t, result |-> <<>>]
    /\ build = Idle /\ tracer = Idle /\ render = Idle /\ camera = Idle /\ log = Idle

SlabTest ==
    /\ trav.pc = "call"
    /\ trav' = [trav EXCEPT !.pc = "returned",
                            !.result = AABBx2_hit(trav.aabbs, trav.ray, trav.ray_t)]
    /\ UNCHANGED <<build, tracer, render, camera, log>>

NextSlab == SlabTest

SpecSlab == InitSlab /\ [][NextSlab]_vars

\* C17: a box whose interval, after the three slabs and [t_min, t_max] are
\* intersected, has max <= min is reported as missed; so is one with min = max.
C17_EmptyIsMiss ==
    trav.pc = "returned" =>
        \A k \in 1..2 :
            FLe(trav.result[k].t.max, trav.result[k].t.min) => ~trav.result[k].hit

=============================================================================
